---------------------------- MODULE Spec2Model ----------------------------
(***************************************************************************)
(* Giardino delle Voci: the two-agent simulation of                        *)
(* src/giardino-delle-voci-src/src/App.tsx as a state machine.             *)
(*                                                                         *)
(* The program computes in IEEE doubles; the model computes in integers    *)
(* in fixed units, rounding to nearest where the program would carry a     *)
(* fraction:                                                               *)
(*   lengths     pixels                                                    *)
(*   angles      tenths of a degree (1800 = pi)                            *)
(*   time        1/3000 s, so that dt = 1/30 s = 100 and                   *)
(*               dtEff = dt * simRate = simRate in hundredths, exactly     *)
(*   probability 1/10000 (PScale)                                          *)
(*   utilities   1/10000                                                   *)
(*   rng()       the top 16 bits of the 32-bit Mulberry32 output,          *)
(*               i.e. rng() = r / 65536 with r in 0..65535                 *)
(***************************************************************************)
EXTENDS Integers, Sequences, FiniteSets, TLC

NULL == "null"

(* ---------------------------- Math helpers ---------------------------- *)

Max2(a, b) == IF a >= b THEN a ELSE b
Min2(a, b) == IF a <= b THEN a ELSE b
Abs(a) == IF a < 0 THEN -a ELSE a

\* a / b (b > 0) rounded to the nearest integer, halves away from zero.
RoundDiv(a, b) == IF a >= 0 THEN (2 * a + b) \div (2 * b) ELSE -((2 * (-a) + b) \div (2 * b))

\* const clamp = (v, a, b) => Math.max(a, Math.min(b, v))
clamp(v, a, b) == Max2(a, Min2(b, v))

\* const lerp = (a, b, t) => a + (b - a) * t, with t in hundredths
lerp(a, b, t) == a + RoundDiv((b - a) * t, 100)

dist2(ax, ay, bx, by) == (ax - bx) * (ax - bx) + (ay - by) * (ay - by)

RECURSIVE SqrtSearch(_, _, _)
SqrtSearch(n, lo, hi) ==
  IF lo >= hi THEN lo
  ELSE LET mid == (lo + hi + 1) \div 2
       IN IF mid * mid <= n THEN SqrtSearch(n, mid, hi) ELSE SqrtSearch(n, lo, mid - 1)

\* floor(sqrt(n)) for 0 <= n < 2^30
ISqrt(n) == SqrtSearch(n, 0, 32767)

\* Math.sqrt(dist2(...)) in tenths of a pixel
dist10(ax, ay, bx, by) == ISqrt(100 * dist2(ax, ay, bx, by))

\* Math.sqrt(dist2(...)) in pixels, rounded
dist(ax, ay, bx, by) == RoundDiv(dist10(ax, ay, bx, by), 10)

PI == 1800

RECURSIVE normAngle(_)
normAngle(a) ==
  IF a > PI THEN normAngle(a - 2 * PI)
  ELSE IF a < -PI THEN normAngle(a + 2 * PI)
  ELSE a

\* atan(z) for 0 <= z <= 1 (z in thousandths), in tenths of a degree:
\* z * (pi/4 + 0.273 * (1 - z)), exact to a quarter of a degree.
AtanUnit(z) == RoundDiv(z * (450000 + 156 * (1000 - z)), 1000000)

\* Math.atan2(dy, dx) in tenths of a degree, in (-1800, 1800]
Atan2(dy, dx) ==
  LET ax == Abs(dx)
      ay == Abs(dy)
      a  == IF ax = 0 /\ ay = 0 THEN 0
            ELSE IF ay <= ax THEN AtanUnit(RoundDiv(1000 * ay, ax))
            ELSE 900 - AtanUnit(RoundDiv(1000 * ax, ay))
  IN IF dx >= 0 THEN (IF dy >= 0 THEN a ELSE -a)
     ELSE (IF dy >= 0 THEN PI - a ELSE a - PI)

\* const angleTo = (ax, ay, bx, by) => Math.atan2(by - ay, bx - ax)
angleTo(ax, ay, bx, by) == Atan2(by - ay, bx - ax)

\* sin of x in [0, 1800], in thousandths (Bhaskara's rational approximation)
SinHalf(x) == LET p == x * (PI - x) IN RoundDiv(400 * p, (4050000 - p) \div 10)

\* Math.sin / Math.cos of an angle in tenths of a degree, in thousandths
Sin(a) == LET x == a % 3600 IN IF x <= PI THEN SinHalf(x) ELSE -SinHalf(x - PI)
Cos(a) == Sin(a + 900)

\* Math.exp(-x) for x >= 0 in thousandths, scaled by 100000:
\* 2^(-k) * exp(-r) with x = k * ln 2 + r and a fourth-order series for exp(-r)
ExpNeg(x) ==
  IF x >= 14000 THEN 0
  ELSE LET k == x \div 693
           r == x % 693
           series == 100000 - 100 * r + (r * r) \div 20 - (r * r * r) \div 60000
                     + (((r * r * r) \div 1000) * r) \div 240000
       IN series \div (2 ^ k)

(* ------------------- Simple seeded RNG (Mulberry32) ------------------- *)
(* A 32-bit word is the pair <<hi, lo>> of its 16-bit halves, so that no   *)
(* intermediate value leaves the range of the model checker's integers.    *)

W16 == 65536

RECURSIVE AndBits(_, _, _)
AndBits(a, b, n) ==
  IF n = 0 THEN 0
  ELSE (IF a % 2 = 1 /\ b % 2 = 1 THEN 1 ELSE 0) + 2 * AndBits(a \div 2, b \div 2, n - 1)

\* a & b for 8-bit a, b, tabulated: AndTab[a + 1][b + 1]
AndTab ==
  SubSeq([ a \in 1..256 |-> SubSeq([ b \in 1..256 |-> AndBits(a - 1, b - 1, 8) ], 1, 256) ], 1, 256)

\* a & b for 16-bit a, b, byte by byte
And16(a, b) ==
  AndTab[(a % 256) + 1][(b % 256) + 1]
  + 256 * AndTab[(a \div 256) + 1][(b \div 256) + 1]

Xor16(a, b) == a + b - 2 * And16(a, b)
Or16(a, b) == a + b - And16(a, b)

Xor32(u, v) == << Xor16(u[1], v[1]), Xor16(u[2], v[2]) >>
Or32(u, v) == << Or16(u[1], v[1]), Or16(u[2], v[2]) >>

\* u >>> k for 0 < k < 16
Shr32(u, k) ==
  LET p == 2 ^ k
  IN << u[1] \div p, (u[2] \div p + (u[1] % p) * (W16 \div p)) % W16 >>

\* (u + v) | 0
Add32(u, v) ==
  LET lo == u[2] + v[2]
  IN << (u[1] + v[1] + lo \div W16) % W16, lo % W16 >>

\* (x * y) mod 2^16 for 16-bit x, y
MulLo16(x, y) == ((((x * (y \div 256)) % 256) * 256) + x * (y % 256)) % W16

\* Math.imul(u, v): the low 32 bits of the product
Imul(u, v) ==
  LET a0 == u[2] % 256
      a1 == u[2] \div 256
      b0 == v[2] % 256
      b1 == v[2] \div 256
      low == (a1 * b0 + a0 * b1) * 256 + a0 * b0
      carry == low \div W16 + a1 * b1
  IN << (carry + MulLo16(u[1], v[2]) + MulLo16(u[2], v[1])) % W16, low % W16 >>

\* 0x6d2b79f5
MulberryInc == << 27947, 31221 >>

\* let a = seed >>> 0 (seeds are taken non-negative and below 2^31)
RngSeed(seed) == << seed \div W16, seed % W16 >>

\* a = (a + 0x6d2b79f5) | 0
RngAdvance(a) == Add32(a, MulberryInc)

\* let t = Math.imul(a ^ (a >>> 15), 1 | a)
Scramble1(a) == Imul(Xor32(a, Shr32(a, 15)), Or32(<< 0, 1 >>, a))

\* t = (t + Math.imul(t ^ (t >>> 7), 61 | t)) ^ t
Scramble2(t) == Xor32(Add32(t, Imul(Xor32(t, Shr32(t, 7)), Or32(<< 0, 61 >>, t))), t)

\* (t ^ (t >>> 14)) >>> 0, its top 16 bits
Scramble3(t) == Xor32(t, Shr32(t, 14))[1]

\* The value returned by the generator after its state became a.
RngValue(a) == Scramble3(Scramble2(Scramble1(a)))

\* The state after n further draws, and the value of the n-th draw from a.
RECURSIVE RngSkip(_, _)
RngSkip(a, n) == IF n = 0 THEN a ELSE RngSkip(RngAdvance(a), n - 1)

Draw(a, n) == RngValue(RngSkip(a, n))

\* The next value rng() returns, and the generator after that call; a
\* generator is [a |-> its 32-bit state, n |-> the number of calls so far].
Rnd(rng) == RngValue(RngAdvance(rng.a))
Adv(rng) == [a |-> RngAdvance(rng.a), n |-> rng.n + 1]

\* rng() < num / den, exactly: r / 65536 < num / den
RndLess(r, num, den) == r * den < W16 * num

(* ----------------------------- Simulation ----------------------------- *)

\* const DEFAULTS, in the units of the model: seconds as 1/3000 s, rates and
\* probabilities in hundredths, turnSpeed in tenths of rad/s, noisePos in
\* tenths of a pixel, noiseAng in thousandths of a radian.
DEFAULTS ==
  [ seed |-> 1337, width |-> 860, height |-> 520, dt |-> 100,
    simRate |-> 55, speed |-> 85, turnSpeed |-> 42,
    fovDeg |-> 120, viewDist |-> 230, takeRadius |-> 18,
    beliefTemp |-> 55, tomStrength |-> 85,
    noisePos |-> 18, noiseAng |-> 50,
    conflictCost |-> 125, cooperationBonus |-> 35,
    bluffChance |-> 18, bluffDurationTicks |-> 26,
    storyRate |-> 65, autoPause |-> TRUE, pauseSeconds |-> 2550,
    pickupFxSeconds |-> 3150,
    blinkMinSec |-> 6000, blinkMaxSec |-> 15000, blinkDurationSec |-> 420,
    saccadeMinSec |-> 1050, saccadeMaxSec |-> 3750, saccadeDurationSec |-> 210,
    glanceChancePerSec |-> 55, glanceDurationSec |-> 1650 ]

PScale == 10000

\* const RESOURCE_TYPES
RESOURCE_TYPES == << "seme_blu", "seme_ambra", "seme_verde" >>

\* id: `${t.id}_${i}` for i = 0, 1, 2
ResId(i) == << "seme_blu_0", "seme_ambra_1", "seme_verde_2" >>[i]
ResIds == { ResId(i) : i \in 1..3 }

\* spawnResources(rng, w, h, 3): the resources, and the generator after the
\* six calls; margin = 55.
spawnResources(rng, w, h) ==
  LET margin == 55
      g(i) == RngSkip(rng.a, 2 * (i - 1))
      at(i, k, span) == margin + RoundDiv(Draw(g(i), k) * (span - margin * 2), W16)
  IN [ res |-> [ i \in 1..3 |->
                 [ id |-> ResId(i), typeId |-> RESOURCE_TYPES[i],
                   x |-> at(i, 1, w), y |-> at(i, 2, h), takenBy |-> NULL ] ],
       rng |-> [a |-> RngSkip(rng.a, 6), n |-> rng.n + 6] ]

\* inFov with the two bounds excluded.
inFov_Open(ax, ay, aTheta, bx, by, fovRad, viewDist) ==
  IF dist2(ax, ay, bx, by) >= viewDist * viewDist THEN FALSE
  ELSE 2 * Abs(normAngle(angleTo(ax, ay, bx, by) - aTheta)) < fovRad

\* function inFov(ax, ay, aTheta, bx, by, fovRad, viewDist); fovRad in tenths
\* of a degree. d > viewDist is decided on the squares.
inFov(ax, ay, aTheta, bx, by, fovRad, viewDist) ==
  IF dist2(ax, ay, bx, by) > viewDist * viewDist THEN FALSE
  ELSE 2 * Abs(normAngle(angleTo(ax, ay, bx, by) - aTheta)) <= fovRad

\* function makeAgent(args)
makeAgent(id, x, y, theta, preferences) ==
  [ id |-> id, x |-> x, y |-> y, theta |-> theta, vx |-> 0, vy |-> 0,
    carried |-> << >>, goal |-> NULL,
    beliefOther |-> [ k \in {} |-> 0 ], memOther |-> << >>,
    bluffTicks |-> 0, bluffTarget |-> NULL,
    preferences |-> preferences, mood |-> "curiosa",
    gazeOtherT |-> 0, blinkT |-> 0, nextBlinkAt |-> 0,
    saccadeT |-> 0, nextSaccadeAt |-> 0 ]

\* The untaken resources' positions in the list, in list order.
RECURSIVE AvailFrom(_, _)
AvailFrom(resources, i) ==
  IF i > Len(resources) THEN << >>
  ELSE IF resources[i].takenBy # NULL THEN AvailFrom(resources, i + 1)
  ELSE << i >> \o AvailFrom(resources, i + 1)

Available(resources) == AvailFrom(resources, 1)

\* The first position of idx (a sequence of positions) whose value under
\* val is greatest: the loop "if (v > best) { best = v; ... }", and the head
\* of a stable descending sort.
RECURSIVE ArgMaxFrom(_, _, _, _)
ArgMaxFrom(idx, val, k, best) ==
  IF k > Len(idx) THEN best
  ELSE ArgMaxFrom(idx, val, k + 1, IF val[idx[k]] > val[best] THEN idx[k] ELSE best)

\* ArgMax taking the last of the positions whose value is greatest.
RECURSIVE ArgMaxLastFrom(_, _, _, _)
ArgMaxLastFrom(idx, val, k, best) ==
  IF k > Len(idx) THEN best
  ELSE ArgMaxLastFrom(idx, val, k + 1, IF val[idx[k]] >= val[best] THEN idx[k] ELSE best)

ArgMax_Last(idx, val) == ArgMaxLastFrom(idx, val, 2, idx[1])

ArgMax(idx, val) == ArgMaxFrom(idx, val, 2, idx[1])

\* function pickBestResourceId(agent, resources)
pickBestResourceId(agent, resources) ==
  LET av == Available(resources)
      w == [ i \in 1..Len(resources) |-> agent.preferences[resources[i].typeId] ]
  IN IF av = << >> THEN NULL ELSE resources[ArgMax(av, w)].id

\* function resourceById(resources, rid): the position in the list, 0 for null
resourceById(resources, rid) ==
  IF rid = NULL \/ ~\E i \in 1..Len(resources) : resources[i].id = rid THEN 0
  ELSE CHOOSE i \in 1..Len(resources) :
         resources[i].id = rid /\ \A j \in 1..(i - 1) : resources[j].id # rid

\* Lines 282-316 of initSim: the two agents, their timers drawn
\* from the generator rng in the order A's blink, B's blink, A's saccade,
\* B's saccade, and the simulation.
initAgents(config, resources, rng) ==
  LET prefA == [ seme_blu |-> 10000, seme_ambra |-> 5500, seme_verde |-> 2500 ]
      prefB == [ seme_blu |-> 3500, seme_ambra |-> 9000, seme_verde |-> 6000 ]
      A0 == makeAgent("A", 130, RoundDiv(config.height * 55, 100), 57, prefA)
      B0 == makeAgent("B", config.width - 140, RoundDiv(config.height * 45, 100), PI - 115, prefB)
      initBel == [ k \in { resources[i].id : i \in 1..Len(resources) } |->
                   PScale \div Len(resources) ]
  IN [ t |-> 0, tick |-> 0, pauseT |-> 0, effects |-> << >>,
       subtitle |-> << >>, subtitleT |-> 0,
       rng |-> [a |-> RngSkip(rng.a, 4), n |-> rng.n + 4],
       resources |-> resources,
       agents |->
         [ A |-> [ A0 EXCEPT !.nextBlinkAt = 3600 + RoundDiv(Draw(rng.a, 1) * 7500, W16),
                             !.nextSaccadeAt = 900 + RoundDiv(Draw(rng.a, 3) * 2400, W16),
                             !.beliefOther = initBel,
                             !.goal = pickBestResourceId(A0, resources) ],
           B |-> [ B0 EXCEPT !.nextBlinkAt = 3600 + RoundDiv(Draw(rng.a, 2) * 7500, W16),
                             !.nextSaccadeAt = 900 + RoundDiv(Draw(rng.a, 4) * 2400, W16),
                             !.beliefOther = initBel,
                             !.goal = pickBestResourceId(B0, resources) ] ],
       story |-> << "intro_1", "intro_2" >> ]

\* The simulation initSim builds on the resources spawned.
initSpawned(config, sp) == initAgents(config, sp.res, sp.rng)

\* function initSim(cfg)
initSim(config) ==
  initSpawned(config,
    spawnResources([a |-> RngSeed(config.seed), n |-> 0], config.width, config.height))

\* The observation null: the other agent is not perceived.
NoObs == [ seen |-> FALSE, x |-> 0, y |-> 0, theta |-> 0 ]

\* visibleObservation drawing its three numbers before the test of sees.
visibleObservation_DrawsFirst(cfg, rng, observer, other) ==
  LET fovRad == cfg.fovDeg * 10
      sees == inFov(observer.x, observer.y, observer.theta, other.x, other.y, fovRad, cfg.viewDist)
      noiseAngD == RoundDiv(cfg.noiseAng * 573, 1000)
      nx == RoundDiv((2 * Draw(rng.a, 1) - W16) * cfg.noisePos, 10 * W16)
      ny == RoundDiv((2 * Draw(rng.a, 2) - W16) * cfg.noisePos, 10 * W16)
      na == RoundDiv((2 * Draw(rng.a, 3) - W16) * noiseAngD, W16)
  IN [ obs |-> IF ~sees THEN NoObs
               ELSE [ seen |-> TRUE, x |-> other.x + nx, y |-> other.y + ny,
                      theta |-> other.theta + na ],
       rng |-> [a |-> RngSkip(rng.a, 3), n |-> rng.n + 3] ]

\* function visibleObservation(cfg, sim, observer, other): the observation
\* (NoObs for null) and the generator afterwards.
visibleObservation(cfg, rng, observer, other) ==
  LET fovRad == cfg.fovDeg * 10
      sees == inFov(observer.x, observer.y, observer.theta, other.x, other.y, fovRad, cfg.viewDist)
      noiseAngD == RoundDiv(cfg.noiseAng * 573, 1000)
      nx == RoundDiv((2 * Draw(rng.a, 1) - W16) * cfg.noisePos, 10 * W16)
      ny == RoundDiv((2 * Draw(rng.a, 2) - W16) * cfg.noisePos, 10 * W16)
      na == RoundDiv((2 * Draw(rng.a, 3) - W16) * noiseAngD, W16)
  IN IF ~sees THEN [ obs |-> NoObs, rng |-> rng ]
     ELSE [ obs |-> [ seen |-> TRUE, x |-> other.x + nx, y |-> other.y + ny,
                      theta |-> other.theta + na ],
            rng |-> [a |-> RngSkip(rng.a, 3), n |-> rng.n + 3] ]

RECURSIVE SeqSum(_, _)
SeqSum(f, idx) == IF idx = << >> THEN 0 ELSE f[Head(idx)] + SeqSum(f, Tail(idx))

\* const softmax = (arr, temp): arr indexed by the positions idx, scores in
\* thousandths, temp in hundredths; the result in 1/PScale.
softmax(arr, idx, temp) ==
  LET m == arr[ArgMax(idx, arr)]
      exps == [ i \in DOMAIN arr |->
                IF ~\E j \in 1..Len(idx) : idx[j] = i THEN 0
                ELSE IF temp <= 0 THEN (IF arr[i] = m THEN 100000 ELSE 0)
                ELSE ExpNeg(((m - arr[i]) * 100) \div temp) ]
      s0 == SeqSum(exps, idx)
      sm == IF s0 = 0 THEN 1 ELSE s0
  IN [ i \in DOMAIN arr |-> RoundDiv(exps[i] * PScale, sm) ]

\* LastN keeping the first n entries.
LastN_Oldest(q, n) == IF Len(q) <= n THEN q ELSE SubSeq(q, 1, n)

\* The last (at most) n elements of a sequence: mem.slice(-n)
LastN(q, n) == IF Len(q) <= n THEN q ELSE SubSeq(q, Len(q) - n + 1, Len(q))

\* updateBeliefAboutGoal without "if (!keys.length) return".
updateBeliefAboutGoal_NoKeysGuard(cfg, me, obs, resources) ==
  LET mem == me.memOther
      hasPrev == Len(mem) > 0
      prev == mem[Len(mem)]
      cur == obs
      keys == Available(resources)
      score(i) ==
        LET r == resources[i]
            dNow == dist10(cur.x, cur.y, r.x, r.y)
            dPrev == IF hasPrev THEN dist10(prev.x, prev.y, r.x, r.y) ELSE dNow + 10
            toward == clamp(dPrev - dNow, -250, 250)
            aToRes == angleTo(cur.x, cur.y, r.x, r.y)
            align == 1000 - clamp(RoundDiv(Abs(normAngle(aToRes - cur.theta)) * 1000, PI), 0, 1000)
            prox == 1000 - clamp(RoundDiv(dNow * 100, cfg.viewDist), 0, 1000)
        IN 55 * toward + RoundDiv(35 * align * 12, 100) + RoundDiv(10 * prox * 10, 100)
      scores == [ i \in 1..Len(resources) |-> IF resources[i].takenBy # NULL THEN 0 ELSE score(i) ]
      probs == softmax(scores, keys, cfg.beliefTemp)
      alpha == clamp(cfg.tomStrength, 0, 100)
      newP == [ i \in 1..Len(resources) |-> lerp(me.beliefOther[resources[i].id], probs[i], alpha) ]
      sum == SeqSum(newP, keys)
      isKey(k) == \E j \in 1..Len(keys) : resources[keys[j]].id = k
      updated == [ k \in DOMAIN me.beliefOther |->
                   IF ~isKey(k) THEN me.beliefOther[k]
                   ELSE LET v == newP[resourceById(resources, k)]
                        IN IF sum > 0 THEN RoundDiv(v * PScale, sum) ELSE v ]
  IN IF ~cur.seen THEN me
     ELSE [ me EXCEPT !.beliefOther = updated,
                      !.memOther = LastN(mem, 12)
                                   \o << [ x |-> cur.x, y |-> cur.y, theta |-> cur.theta ] >> ]

\* function updateBeliefAboutGoal(cfg, me, obs, resources): the agent afterwards
updateBeliefAboutGoal(cfg, me, obs, resources) ==
  LET mem == me.memOther
      hasPrev == Len(mem) > 0
      prev == mem[Len(mem)]
      cur == obs
      keys == Available(resources)
      score(i) ==
        LET r == resources[i]
            dNow == dist10(cur.x, cur.y, r.x, r.y)
            dPrev == IF hasPrev THEN dist10(prev.x, prev.y, r.x, r.y) ELSE dNow + 10
            toward == clamp(dPrev - dNow, -250, 250)
            aToRes == angleTo(cur.x, cur.y, r.x, r.y)
            align == 1000 - clamp(RoundDiv(Abs(normAngle(aToRes - cur.theta)) * 1000, PI), 0, 1000)
            prox == 1000 - clamp(RoundDiv(dNow * 100, cfg.viewDist), 0, 1000)
        IN 55 * toward + RoundDiv(35 * align * 12, 100) + RoundDiv(10 * prox * 10, 100)
      scores == [ i \in 1..Len(resources) |-> IF resources[i].takenBy # NULL THEN 0 ELSE score(i) ]
      probs == softmax(scores, keys, cfg.beliefTemp)
      alpha == clamp(cfg.tomStrength, 0, 100)
      newP == [ i \in 1..Len(resources) |-> lerp(me.beliefOther[resources[i].id], probs[i], alpha) ]
      sum == SeqSum(newP, keys)
      isKey(k) == \E j \in 1..Len(keys) : resources[keys[j]].id = k
      updated == [ k \in DOMAIN me.beliefOther |->
                   IF ~isKey(k) THEN me.beliefOther[k]
                   ELSE LET v == newP[resourceById(resources, k)]
                        IN IF sum > 0 THEN RoundDiv(v * PScale, sum) ELSE v ]
  IN IF ~cur.seen \/ keys = << >> THEN me
     ELSE [ me EXCEPT !.beliefOther = updated,
                      !.memOther = LastN(mem, 12)
                                   \o << [ x |-> cur.x, y |-> cur.y, theta |-> cur.theta ] >> ]

\* function mostLikelyBelief(me): Object.entries in insertion order, which is
\* the order of the resource list the map was filled from.
mostLikelyBelief(me) ==
  LET ids == [ i \in 1..3 |-> ResId(i) ]
      present == SelectSeq(ids, LAMBDA k : k \in DOMAIN me.beliefOther)
      first(k) == \A j \in 1..Len(present) :
                    /\ me.beliefOther[present[j]] <= me.beliefOther[k]
                    /\ (me.beliefOther[present[j]] = me.beliefOther[k] =>
                          \E i \in 1..j : present[i] = k)
  IN IF present = << >> THEN [ rid |-> NULL, p |-> -1 ]
     ELSE LET best == CHOOSE k \in DOMAIN me.beliefOther : first(k)
          IN [ rid |-> best, p |-> me.beliefOther[best] ]

\* The first position of idx whose value under val is least: the head of a
\* stable ascending sort.
RECURSIVE ArgMinFrom(_, _, _, _)
ArgMinFrom(idx, val, k, best) ==
  IF k > Len(idx) THEN best
  ELSE ArgMinFrom(idx, val, k + 1, IF val[idx[k]] < val[best] THEN idx[k] ELSE best)

ArgMin(idx, val) == ArgMinFrom(idx, val, 2, idx[1])

\* Utility without the preference weight w.
Utility_NoPreference(cfg, me, other, r) ==
  LET d == dist10(me.x, me.y, r.x, r.y)
      distCost == RoundDiv(d * 1000, 260)
      pOther == IF r.id \in DOMAIN me.beliefOther THEN me.beliefOther[r.id] ELSE 0
      likelyOther == mostLikelyBelief(me).rid
      coop == IF likelyOther # NULL /\ likelyOther # r.id THEN cfg.cooperationBonus * 100 ELSE 0
      otherCloser == IF dist2(other.x, other.y, r.x, r.y) < dist2(me.x, me.y, r.x, r.y)
                     THEN 1200 ELSE 0
  IN 0 - distCost - RoundDiv(cfg.conflictCost * pOther, 100) - otherCloser + coop

\* The utility u of resource r in pickAction's normal branch, in 1/10000.
Utility(cfg, me, other, r) ==
  LET w == me.preferences[r.typeId]
      d == dist10(me.x, me.y, r.x, r.y)
      distCost == RoundDiv(d * 1000, 260)
      pOther == IF r.id \in DOMAIN me.beliefOther THEN me.beliefOther[r.id] ELSE 0
      conflict == pOther
      likelyOther == mostLikelyBelief(me).rid
      coop == IF likelyOther # NULL /\ likelyOther # r.id THEN cfg.cooperationBonus * 100 ELSE 0
      otherCloser == IF dist2(other.x, other.y, r.x, r.y) < dist2(me.x, me.y, r.x, r.y)
                     THEN 1200 ELSE 0
  IN w - distCost - RoundDiv(cfg.conflictCost * conflict, 100) - otherCloser + coop

\* pickCommitted without "me.bluffTicks -= 1".
pickCommitted_Forever(rng, me) ==
  [ me |-> me, rng |-> rng,
    act |-> [ type |-> "move_to", targetId |-> me.bluffTarget, bluff |-> FALSE ] ]

\* pickCommitted drawing from the generator, as the bluff trigger does.
pickCommitted_Redraw(rng, me) ==
  [ me |-> [ me EXCEPT !.bluffTicks = me.bluffTicks - 1 ], rng |-> Adv(rng),
    act |-> [ type |-> "move_to", targetId |-> me.bluffTarget, bluff |-> FALSE ] ]

\* Lines 388-391 of pickAction: a bluff in progress goes on.
pickCommitted(rng, me) ==
  [ me |-> [ me EXCEPT !.bluffTicks = me.bluffTicks - 1 ], rng |-> rng,
    act |-> [ type |-> "move_to", targetId |-> me.bluffTarget, bluff |-> FALSE ] ]

\* pickBluff counting the tick that starts the bluff in its duration.
pickBluff_Short(cfg, rng, me, resources, decoys) ==
  LET d2 == [ i \in 1..Len(resources) |-> dist2(me.x, me.y, resources[i].x, resources[i].y) ]
      decoy == resources[ArgMin(decoys, d2)].id
  IN [ me |-> [ me EXCEPT !.bluffTarget = decoy,
                          !.bluffTicks = cfg.bluffDurationTicks - 1,
                          !.mood = "furba" ],
       rng |-> rng,
       act |-> [ type |-> "move_to", targetId |-> decoy, bluff |-> TRUE ] ]

\* pickBluff towards the farthest of the decoys.
pickBluff_Farthest(cfg, rng, me, resources, decoys) ==
  LET d2 == [ i \in 1..Len(resources) |-> dist2(me.x, me.y, resources[i].x, resources[i].y) ]
      decoy == resources[ArgMax(decoys, d2)].id
  IN [ me |-> [ me EXCEPT !.bluffTarget = decoy,
                          !.bluffTicks = cfg.bluffDurationTicks,
                          !.mood = "furba" ],
       rng |-> rng,
       act |-> [ type |-> "move_to", targetId |-> decoy, bluff |-> TRUE ] ]

\* pickBluff without "me.mood = furba".
pickBluff_KeepsMood(cfg, rng, me, resources, decoys) ==
  LET d2 == [ i \in 1..Len(resources) |-> dist2(me.x, me.y, resources[i].x, resources[i].y) ]
      decoy == resources[ArgMin(decoys, d2)].id
  IN [ me |-> [ me EXCEPT !.bluffTarget = decoy,
                          !.bluffTicks = cfg.bluffDurationTicks ],
       rng |-> rng,
       act |-> [ type |-> "move_to", targetId |-> decoy, bluff |-> TRUE ] ]

\* Lines 401-405 of pickAction: a bluff starts towards the nearest of the
\* decoys (positions in the resource list, not empty).
pickBluff(cfg, rng, me, resources, decoys) ==
  LET d2 == [ i \in 1..Len(resources) |-> dist2(me.x, me.y, resources[i].x, resources[i].y) ]
      decoy == resources[ArgMin(decoys, d2)].id
  IN [ me |-> [ me EXCEPT !.bluffTarget = decoy,
                          !.bluffTicks = cfg.bluffDurationTicks,
                          !.mood = "furba" ],
       rng |-> rng,
       act |-> [ type |-> "move_to", targetId |-> decoy, bluff |-> TRUE ] ]

\* function pickAction(cfg, sim, me, other, resources): the agent and the
\* generator afterwards, and the action returned.
pickAction(cfg, rng, me, other, resources) ==
  LET available == Available(resources)
      belief == mostLikelyBelief(me)
      conflictLikely == belief.rid # NULL /\ belief.rid = me.goal /\ belief.p * 100 > 58 * PScale
      drawn == conflictLikely
      rng1 == IF drawn THEN Adv(rng) ELSE rng
      lucky == drawn /\ RndLess(Rnd(rng), cfg.bluffChance, 100)
      decoys == SelectSeq(available, LAMBDA i : resources[i].id # me.goal)
      u == [ i \in 1..Len(resources) |-> Utility(cfg, me, other, resources[i]) ]
      chosenId == resources[ArgMax(available, u)].id
  IN IF me.bluffTicks > 0 /\ me.bluffTarget # NULL
     THEN pickCommitted(rng, me)
     ELSE IF available = << >>
     THEN [ me |-> me, rng |-> rng,
            act |-> [ type |-> "idle", targetId |-> NULL, bluff |-> FALSE ] ]
     ELSE IF lucky /\ decoys # << >>
     THEN pickBluff(cfg, rng1, me, resources, decoys)
     ELSE [ me |-> [ me EXCEPT !.mood = "curiosa", !.goal = chosenId ],
            rng |-> rng1,
            act |-> [ type |-> "move_to", targetId |-> chosenId, bluff |-> FALSE ] ]

\* moveAlong without the two clamps of lines 455-456.
moveAlong_Unbounded(cfg, agent, theta, dt) ==
  LET sp == cfg.speed
      x == agent.x + RoundDiv(Cos(theta) * sp * dt, 3000000)
      y == agent.y + RoundDiv(Sin(theta) * sp * dt, 3000000)
  IN [ agent EXCEPT !.theta = theta,
                    !.vx = RoundDiv(Cos(theta) * sp, 1000),
                    !.vy = RoundDiv(Sin(theta) * sp, 1000),
                    !.x = x,
                    !.y = y ]

\* Lines 447-456 of stepMovement: the agent after it turned to theta.
moveAlong(cfg, agent, theta, dt) ==
  LET sp == cfg.speed
      x == agent.x + RoundDiv(Cos(theta) * sp * dt, 3000000)
      y == agent.y + RoundDiv(Sin(theta) * sp * dt, 3000000)
  IN [ agent EXCEPT !.theta = theta,
                    !.vx = RoundDiv(Cos(theta) * sp, 1000),
                    !.vy = RoundDiv(Sin(theta) * sp, 1000),
                    !.x = clamp(x, 16, cfg.width - 16),
                    !.y = clamp(y, 16, cfg.height - 16) ]

\* stepMovement returning at once when there is no target.
stepMovement_Coasting(cfg, agent, resources, target, dt) ==
  IF target = 0 THEN agent
  ELSE LET desired == angleTo(agent.x, agent.y, resources[target].x, resources[target].y)
           delta == normAngle(desired - agent.theta)
           maxTurn == RoundDiv(cfg.turnSpeed * dt * 573, 30000)
       IN moveAlong(cfg, agent, agent.theta + clamp(delta, -maxTurn, maxTurn), dt)

\* function stepMovement(cfg, agent, target, dt): target is a position in the
\* resource list, 0 for null.
stepMovement(cfg, agent, resources, target, dt) ==
  IF target = 0 THEN [ agent EXCEPT !.vx = 0, !.vy = 0 ]
  ELSE LET desired == angleTo(agent.x, agent.y, resources[target].x, resources[target].y)
           delta == normAngle(desired - agent.theta)
           maxTurn == RoundDiv(cfg.turnSpeed * dt * 573, 30000)
       IN moveAlong(cfg, agent, agent.theta + clamp(delta, -maxTurn, maxTurn), dt)

\* attemptTake without "|| target.takenBy" in its first test.
attemptTake_Retake(cfg, agent, resources) ==
  LET target == resourceById(resources, agent.goal)
      taken == [ resources EXCEPT ![target].takenBy = agent.id ]
  IN IF target = 0
     THEN [ agent |-> agent, resources |-> resources, took |-> 0 ]
     ELSE IF dist2(agent.x, agent.y, resources[target].x, resources[target].y)
             <= cfg.takeRadius * cfg.takeRadius
     THEN [ agent |-> [ agent EXCEPT !.carried = Append(agent.carried, resources[target].typeId),
                                     !.goal = pickBestResourceId(agent, taken),
                                     !.bluffTicks = 0,
                                     !.bluffTarget = NULL,
                                     !.mood = "soddisfatta" ],
            resources |-> taken, took |-> target ]
     ELSE [ agent |-> agent, resources |-> resources, took |-> 0 ]

\* attemptTake choosing the next goal before the resource is marked taken.
attemptTake_StaleGoal(cfg, agent, resources) ==
  LET target == resourceById(resources, agent.goal)
      taken == [ resources EXCEPT ![target].takenBy = agent.id ]
  IN IF target = 0 \/ resources[target].takenBy # NULL
     THEN [ agent |-> agent, resources |-> resources, took |-> 0 ]
     ELSE IF dist2(agent.x, agent.y, resources[target].x, resources[target].y)
             <= cfg.takeRadius * cfg.takeRadius
     THEN [ agent |-> [ agent EXCEPT !.carried = Append(agent.carried, resources[target].typeId),
                                     !.goal = pickBestResourceId(agent, resources),
                                     !.bluffTicks = 0,
                                     !.bluffTarget = NULL,
                                     !.mood = "soddisfatta" ],
            resources |-> taken, took |-> target ]
     ELSE [ agent |-> agent, resources |-> resources, took |-> 0 ]

\* attemptTake without "agent.carried.push(target.typeId)".
attemptTake_NotCarried(cfg, agent, resources) ==
  LET target == resourceById(resources, agent.goal)
      taken == [ resources EXCEPT ![target].takenBy = agent.id ]
  IN IF target = 0 \/ resources[target].takenBy # NULL
     THEN [ agent |-> agent, resources |-> resources, took |-> 0 ]
     ELSE IF dist2(agent.x, agent.y, resources[target].x, resources[target].y)
             <= cfg.takeRadius * cfg.takeRadius
     THEN [ agent |-> [ agent EXCEPT !.goal = pickBestResourceId(agent, taken),
                                     !.bluffTicks = 0,
                                     !.bluffTarget = NULL,
                                     !.mood = "soddisfatta" ],
            resources |-> taken, took |-> target ]
     ELSE [ agent |-> agent, resources |-> resources, took |-> 0 ]

\* attemptTake resolving the decoy of a bluff in progress instead of the goal.
attemptTake_Decoy(cfg, agent, resources) ==
  LET target == resourceById(resources, IF agent.bluffTicks > 0 /\ agent.bluffTarget # NULL
                                        THEN agent.bluffTarget ELSE agent.goal)
      taken == [ resources EXCEPT ![target].takenBy = agent.id ]
  IN IF target = 0 \/ resources[target].takenBy # NULL
     THEN [ agent |-> agent, resources |-> resources, took |-> 0 ]
     ELSE IF dist2(agent.x, agent.y, resources[target].x, resources[target].y)
             <= cfg.takeRadius * cfg.takeRadius
     THEN [ agent |-> [ agent EXCEPT !.carried = Append(agent.carried, resources[target].typeId),
                                     !.goal = pickBestResourceId(agent, taken),
                                     !.bluffTicks = 0,
                                     !.bluffTarget = NULL,
                                     !.mood = "soddisfatta" ],
            resources |-> taken, took |-> target ]
     ELSE [ agent |-> agent, resources |-> resources, took |-> 0 ]

\* function attemptTake(cfg, agent, resources): the agent and the resources
\* afterwards, and the position of the resource taken (0 for null).
attemptTake(cfg, agent, resources) ==
  LET target == resourceById(resources, agent.goal)
      taken == [ resources EXCEPT ![target].takenBy = agent.id ]
  IN IF target = 0 \/ resources[target].takenBy # NULL
     THEN [ agent |-> agent, resources |-> resources, took |-> 0 ]
     ELSE IF dist2(agent.x, agent.y, resources[target].x, resources[target].y)
             <= cfg.takeRadius * cfg.takeRadius
     THEN [ agent |-> [ agent EXCEPT !.carried = Append(agent.carried, resources[target].typeId),
                                     !.goal = pickBestResourceId(agent, taken),
                                     !.bluffTicks = 0,
                                     !.bluffTarget = NULL,
                                     !.mood = "soddisfatta" ],
            resources |-> taken, took |-> target ]
     ELSE [ agent |-> agent, resources |-> resources, took |-> 0 ]

\* function narrativeBeat(cfg, sim, me, other, tookResource): the beats (each
\* the speaker and the kind of sentence) and the generator after its four calls.
narrativeBeat(cfg, rng, resources, me, other, tookResource) ==
  LET belief == mostLikelyBelief(me)
      otherBelief == mostLikelyBelief(other)
      chance == clamp(cfg.storyRate, 0, 100)
      hit(k, pct) == RndLess(Draw(rng.a, k), pct * chance, 10000)
      r == resourceById(resources, belief.rid)
      b0 == IF tookResource # 0 THEN << << me.id, "raccoglie" >> >> ELSE << >>
      b1 == IF hit(1, 22) /\ belief.rid # NULL /\ r # 0 /\ resources[r].takenBy = NULL
            THEN << << me.id, "sospetta" >> >> ELSE << >>
      b2 == IF hit(2, 16) /\ inFov(me.x, me.y, me.theta, other.x, other.y,
                                    cfg.fovDeg * 10, cfg.viewDist)
            THEN << << me.id, "sguardo" >> >> ELSE << >>
      b3 == IF hit(3, 12) /\ me.mood = "furba" THEN << << me.id, "passo" >> >> ELSE << >>
      b4 == IF hit(4, 8) /\ otherBelief.rid # NULL /\ otherBelief.rid = me.goal
            THEN << << me.id, "sfiorano" >> >> ELSE << >>
  IN [ beats |-> b0 \o b1 \o b2 \o b3 \o b4,
       rng |-> [a |-> RngSkip(rng.a, 4), n |-> rng.n + 4] ]

(* ------------------------------ The loop ------------------------------ *)

\* const dtEff = cfg.dt * clamp(cfg.simRate, 0.2, 1.5)
dtEffOf(cfg) == RoundDiv(cfg.dt * clamp(cfg.simRate, 20, 150), 100)

\* const narrEvery = Math.max(8, Math.round(14 / clamp(cfg.simRate, 0.2, 1.5)))
narrEveryOf(cfg) == Max2(8, RoundDiv(1400, clamp(cfg.simRate, 20, 150)))

\* Lines 631-638: the social glances and the decay of gazeOtherT.
Glances(cfg, rng, A, B) ==
  LET dtEff == dtEffOf(cfg)
      near == 625 * dist2(A.x, A.y, B.x, B.y) < (23 * cfg.viewDist) * (23 * cfg.viewDist)
      lim == (W16 * cfg.glanceChancePerSec * dtEff + 99) \div 100
      gA == IF near /\ Draw(rng.a, 1) * 3000 < lim THEN cfg.glanceDurationSec ELSE A.gazeOtherT
      gB == IF near /\ Draw(rng.a, 2) * 3000 < lim THEN cfg.glanceDurationSec ELSE B.gazeOtherT
  IN [ A |-> [ A EXCEPT !.gazeOtherT = Max2(0, gA - dtEff) ],
       B |-> [ B EXCEPT !.gazeOtherT = Max2(0, gB - dtEff) ],
       rng |-> IF near THEN [a |-> RngSkip(rng.a, 2), n |-> rng.n + 2] ELSE rng ]

\* Lines 672-691 for one agent: blink and micro-saccade timers at time t.
Eyes(cfg, rng, ag, t) ==
  LET dtEff == dtEffOf(cfg)
      blinkT == Max2(0, ag.blinkT - dtEff)
      blink == t >= ag.nextBlinkAt /\ blinkT <= 0
      rng1 == IF blink THEN Adv(rng) ELSE rng
      saccadeT == Max2(0, ag.saccadeT - dtEff)
      saccade == t >= ag.nextSaccadeAt /\ saccadeT <= 0
  IN [ ag |-> [ ag EXCEPT
                  !.blinkT = IF blink THEN cfg.blinkDurationSec ELSE blinkT,
                  !.nextBlinkAt = IF blink
                                  THEN t + cfg.blinkMinSec
                                       + RoundDiv(Rnd(rng) * (cfg.blinkMaxSec - cfg.blinkMinSec), W16)
                                  ELSE ag.nextBlinkAt,
                  !.saccadeT = IF saccade THEN cfg.saccadeDurationSec ELSE saccadeT,
                  !.nextSaccadeAt = IF saccade
                                    THEN t + cfg.saccadeMinSec
                                         + RoundDiv(Rnd(rng1) * (cfg.saccadeMaxSec - cfg.saccadeMinSec), W16)
                                    ELSE ag.nextSaccadeAt ],
       rng |-> IF saccade THEN [a |-> RngSkip(rng1.a, 3), n |-> rng1.n + 3] ELSE rng1 ]

\* function spawnPickupEffect(cfg, sim, res, agent)
spawnPickupEffect(cfg, t, res, agent) ==
  [ type |-> "pickup", t0 |-> t, dur |-> cfg.pickupFxSeconds,
    x0 |-> res.x, y0 |-> res.y, x1 |-> agent.x, y1 |-> agent.y, typeId |-> res.typeId ]

\* AutoPause with the pause of a pickup as short as that of a mutual sighting.
AutoPause_ShortPickup(cfg, rng, pauseT, A, B, took, bluffed) ==
  LET p1 == IF took THEN Max2(pauseT, RoundDiv(cfg.pauseSeconds * 60, 100)) ELSE pauseT
      p2 == IF bluffed THEN Max2(p1, RoundDiv(cfg.pauseSeconds * 75, 100)) ELSE p1
      seesAB == inFov(A.x, A.y, A.theta, B.x, B.y, cfg.fovDeg * 10, cfg.viewDist)
      seesBA == inFov(B.x, B.y, B.theta, A.x, A.y, cfg.fovDeg * 10, cfg.viewDist)
      both == seesAB /\ seesBA
  IN IF ~cfg.autoPause THEN [ pauseT |-> pauseT, rng |-> rng ]
     ELSE [ pauseT |-> IF both /\ RndLess(Rnd(rng), 8, 100)
                       THEN Max2(p2, RoundDiv(cfg.pauseSeconds * 60, 100)) ELSE p2,
            rng |-> IF both THEN Adv(rng) ELSE rng ]

\* Lines 712-719 without the test of cfg.autoPause.
AutoPause_Always(cfg, rng, pauseT, A, B, took, bluffed) ==
  LET p1 == IF took THEN Max2(pauseT, cfg.pauseSeconds) ELSE pauseT
      p2 == IF bluffed THEN Max2(p1, RoundDiv(cfg.pauseSeconds * 75, 100)) ELSE p1
      seesAB == inFov(A.x, A.y, A.theta, B.x, B.y, cfg.fovDeg * 10, cfg.viewDist)
      seesBA == inFov(B.x, B.y, B.theta, A.x, A.y, cfg.fovDeg * 10, cfg.viewDist)
      both == seesAB /\ seesBA
  IN [ pauseT |-> IF both /\ RndLess(Rnd(rng), 8, 100)
                  THEN Max2(p2, RoundDiv(cfg.pauseSeconds * 60, 100)) ELSE p2,
       rng |-> IF both THEN Adv(rng) ELSE rng ]

\* Lines 712-719: the pause a tick ends with, and the generator afterwards.
AutoPause(cfg, rng, pauseT, A, B, took, bluffed) ==
  LET p1 == IF took THEN Max2(pauseT, cfg.pauseSeconds) ELSE pauseT
      p2 == IF bluffed THEN Max2(p1, RoundDiv(cfg.pauseSeconds * 75, 100)) ELSE p1
      seesAB == inFov(A.x, A.y, A.theta, B.x, B.y, cfg.fovDeg * 10, cfg.viewDist)
      seesBA == inFov(B.x, B.y, B.theta, A.x, A.y, cfg.fovDeg * 10, cfg.viewDist)
      both == seesAB /\ seesBA
  IN IF ~cfg.autoPause THEN [ pauseT |-> pauseT, rng |-> rng ]
     ELSE [ pauseT |-> IF both /\ RndLess(Rnd(rng), 8, 100)
                       THEN Max2(p2, RoundDiv(cfg.pauseSeconds * 60, 100)) ELSE p2,
            rng |-> IF both THEN Adv(rng) ELSE rng ]

\* The resource an action heads for, as a position in the list: 0 for null.
TargetOf(resources, act) ==
  IF act.type = "move_to" THEN resourceById(resources, act.targetId) ELSE 0

\* B's decision with A already moved, after A's decision actA.
DecisionOfB_AfterMove(cfg, actA, movedA, B, resources) ==
  [ A |-> actA, B |-> pickAction(cfg, actA.rng, B, movedA, resources),
    other |-> [ A |-> B, B |-> movedA ] ]

\* Line 649: B's decision, after A's decision actA.
DecisionOfB(cfg, actA, B, resources) ==
  [ A |-> actA, B |-> pickAction(cfg, actA.rng, B, actA.me, resources),
    other |-> [ A |-> B, B |-> actA.me ] ]

\* Decisions with A moved before B decides.
Decisions_AfterMove(cfg, rng, A, B, resources) ==
  LET actA == pickAction(cfg, rng, A, B, resources)
  IN DecisionOfB_AfterMove(cfg, actA,
       stepMovement(cfg, actA.me, resources, TargetOf(resources, actA.act), dtEffOf(cfg)),
       B, resources)

\* Lines 648-649: the two decisions, A's first, and under "other" the agent
\* each call was handed as the other one.
Decisions(cfg, rng, A, B, resources) ==
  DecisionOfB(cfg, pickAction(cfg, rng, A, B, resources), B, resources)

\* A's pickup, after B's pickup tookB.
PickupOfA_BFirst(cfg, A, tookB) ==
  LET tookA == attemptTake(cfg, A, tookB.resources)
  IN [ A |-> tookA, B |-> tookB, resources |-> tookA.resources ]

\* Line 695: B's pickup, after A's pickup tookA.
PickupOfB(cfg, tookA, B) ==
  LET tookB == attemptTake(cfg, B, tookA.resources)
  IN [ A |-> tookA, B |-> tookB, resources |-> tookB.resources ]

\* Pickups with B's resolved first.
Pickups_BFirst(cfg, A, B, resources) ==
  PickupOfA_BFirst(cfg, A, attemptTake(cfg, B, resources))

\* Lines 694-695: the two pickups, A's first, and the resources after both.
Pickups(cfg, A, B, resources) ==
  PickupOfB(cfg, attemptTake(cfg, A, resources), B)

\* Lines 697-708 for one agent: after its pickup it looks at the other one.
AfterTake(cfg, take) ==
  IF take.took # 0
  THEN [ take.agent EXCEPT !.gazeOtherT =
           Max2(take.agent.gazeOtherT, RoundDiv(cfg.glanceDurationSec * 6, 10)) ]
  ELSE take.agent

\* Lines 700 and 706: the effect of a pickup, if there was one.
PickupEffects(cfg, t, resources, take, agent) ==
  IF take.took # 0
  THEN << spawnPickupEffect(cfg, t, resources[take.took], agent) >> ELSE << >>

\* What narrativeBeat is not called for.
NoBeats(rng) == [ beats |-> << >>, rng |-> rng ]

(* A tick goes through the statements of lines 619-729 in their order. Each *)
(* operator below takes the simulation sim the tick began with and the     *)
(* record w of what the statements before it have computed, and returns w  *)
(* with what its own statements compute.                                   *)

\* TickBegin without "sim.t += dtEff".
TickBegin_ClockStalls(cfg, sim) ==
  [ t |-> sim.t, tick |-> sim.tick + 1,
    gl |-> Glances(cfg, sim.rng, sim.agents.A, sim.agents.B) ]

\* Lines 619-620, 631-638: the clock, and the glances.
TickBegin(cfg, sim) ==
  [ t |-> sim.t + dtEffOf(cfg), tick |-> sim.tick + 1,
    gl |-> Glances(cfg, sim.rng, sim.agents.A, sim.agents.B) ]

\* Line 640: const obsB = visibleObservation(cfg, sim, A, B)
TickObserveB(cfg, sim, w) ==
  w @@ [ seenB |-> visibleObservation(cfg, w.gl.rng, w.gl.A, w.gl.B) ]

\* Line 641: const obsA = visibleObservation(cfg, sim, B, A)
TickObserveA(cfg, sim, w) ==
  w @@ [ seenA |-> visibleObservation(cfg, w.seenB.rng, w.gl.B, w.gl.A) ]

\* TickBeliefs dropping the memory of an agent that observes nothing.
TickBeliefs_Forget(cfg, sim, w) ==
  w @@ [ bel |->
         [ A |-> IF w.seenB.obs.seen
                 THEN updateBeliefAboutGoal(cfg, w.gl.A, w.seenB.obs, sim.resources)
                 ELSE [ w.gl.A EXCEPT !.memOther = << >> ],
           B |-> IF w.seenA.obs.seen
                 THEN updateBeliefAboutGoal(cfg, w.gl.B, w.seenA.obs, sim.resources)
                 ELSE [ w.gl.B EXCEPT !.memOther = << >> ] ] ]

\* Lines 642-643: the belief updates.
TickBeliefs(cfg, sim, w) ==
  w @@ [ bel |->
         [ A |-> IF w.seenB.obs.seen
                 THEN updateBeliefAboutGoal(cfg, w.gl.A, w.seenB.obs, sim.resources)
                 ELSE w.gl.A,
           B |-> IF w.seenA.obs.seen
                 THEN updateBeliefAboutGoal(cfg, w.gl.B, w.seenA.obs, sim.resources)
                 ELSE w.gl.B ] ]

\* Lines 648-649: the decisions.
TickDecide(cfg, sim, w) ==
  w @@ [ dec |-> Decisions(cfg, w.seenA.rng, w.bel.A, w.bel.B, sim.resources) ]

\* Lines 656-660: the motion.
TickMove(cfg, sim, w) ==
  w @@ [ mov |->
         [ A |-> stepMovement(cfg, w.dec.A.me, sim.resources,
                              TargetOf(sim.resources, w.dec.A.act), dtEffOf(cfg)),
           B |-> stepMovement(cfg, w.dec.B.me, sim.resources,
                              TargetOf(sim.resources, w.dec.B.act), dtEffOf(cfg)) ] ]

\* Lines 671-692: the eyes, A's first.
TickEyesA(cfg, sim, w) == w @@ [ eyeA |-> Eyes(cfg, w.dec.B.rng, w.mov.A, w.t) ]
TickEyesB(cfg, sim, w) == w @@ [ eyeB |-> Eyes(cfg, w.eyeA.rng, w.mov.B, w.t) ]

\* Lines 694-695: the pickups.
TickPickups(cfg, sim, w) ==
  w @@ [ tk |-> Pickups(cfg, w.eyeA.ag, w.eyeB.ag, sim.resources) ]

\* Lines 697-708: the agents after their pickups.
TickTaken(cfg, sim, w) ==
  w @@ [ A |-> AfterTake(cfg, w.tk.A), B |-> AfterTake(cfg, w.tk.B) ]

\* Lines 700, 706, 710: the effects.
TickEffects(cfg, sim, w) ==
  w @@ [ effects |->
         SelectSeq(sim.effects \o PickupEffects(cfg, w.t, sim.resources, w.tk.A, w.A)
                               \o PickupEffects(cfg, w.t, sim.resources, w.tk.B, w.B),
                   LAMBDA e : w.t - e.t0 <= e.dur + 600) ]

\* TickPause with narrative beats on every tick.
TickPause_NarrateAlways(cfg, sim, w) ==
  w @@ [ ap |-> AutoPause(cfg, w.eyeB.rng, sim.pauseT, w.A, w.B,
                          w.tk.A.took # 0 \/ w.tk.B.took # 0,
                          w.dec.A.act.bluff \/ w.dec.B.act.bluff),
         narr |-> TRUE ]

\* Lines 712-719: the pause.
TickPause(cfg, sim, w) ==
  w @@ [ ap |-> AutoPause(cfg, w.eyeB.rng, sim.pauseT, w.A, w.B,
                          w.tk.A.took # 0 \/ w.tk.B.took # 0,
                          w.dec.A.act.bluff \/ w.dec.B.act.bluff),
         narr |-> w.tick % narrEveryOf(cfg) = 0 ]

\* Lines 721-723: the narrative beats, every narrEvery ticks.
TickNarrateA(cfg, sim, w) ==
  w @@ [ nbA |-> IF w.narr
                 THEN narrativeBeat(cfg, w.ap.rng, w.tk.resources, w.A, w.B, w.tk.A.took)
                 ELSE NoBeats(w.ap.rng) ]

TickNarrateB(cfg, sim, w) ==
  w @@ [ nbB |-> IF w.narr
                 THEN narrativeBeat(cfg, w.nbA.rng, w.tk.resources, w.B, w.A, w.tk.B.took)
                 ELSE NoBeats(w.nbA.rng) ]

TickBeats(cfg, sim, w) == w @@ [ beats |-> w.nbA.beats \o w.nbB.beats ]

\* Lines 724-728, and the simulation the tick leaves; under "last", what the
\* tick went through: the observations, the agents after the belief
\* updates, each decision and the agent it was handed as the other one, the
\* agents after the motion and the resources taken.
TickEnd(cfg, sim, w) ==
  [ sim |-> [ t |-> w.t, tick |-> w.tick, pauseT |-> w.ap.pauseT, effects |-> w.effects,
              subtitle |-> IF w.beats # << >> THEN w.beats[Len(w.beats)] ELSE sim.subtitle,
              subtitleT |-> IF w.beats # << >> THEN 0 ELSE sim.subtitleT,
              rng |-> w.nbB.rng,
              resources |-> w.tk.resources,
              agents |-> [ A |-> w.A, B |-> w.B ],
              story |-> IF w.beats # << >> THEN LastN(sim.story \o w.beats, 28)
                        ELSE sim.story ],
    last |-> [ kind |-> "tick", pre |-> sim,
               obs |-> [ A |-> w.seenB.obs, B |-> w.seenA.obs ],
               bel |-> w.bel,
               rngIn |-> [ A |-> w.seenA.rng, B |-> w.dec.A.rng ],
               pick |-> [ A |-> w.dec.A, B |-> w.dec.B ],
               other |-> w.dec.other,
               mov |-> w.mov,
               took |-> [ A |-> w.tk.A.took, B |-> w.tk.B.took ] ] ]

\* Lines 619-729: one running sub-step (a tick).
Tick(cfg, sim) ==
  TickEnd(cfg, sim,
  TickBeats(cfg, sim,
  TickNarrateB(cfg, sim,
  TickNarrateA(cfg, sim,
  TickPause(cfg, sim,
  TickEffects(cfg, sim,
  TickTaken(cfg, sim,
  TickPickups(cfg, sim,
  TickEyesB(cfg, sim,
  TickEyesA(cfg, sim,
  TickMove(cfg, sim,
  TickDecide(cfg, sim,
  TickBeliefs(cfg, sim,
  TickObserveA(cfg, sim,
  TickObserveB(cfg, sim,
  TickBegin(cfg, sim))))))))))))))))

\* The simulation as a tick leaves it when one of its statements throws:
\* the tick writes to sim and to its agents in place, and the record w
\* holds what the statements before the throwing one computed. The
\* statements taken to throw are visibleObservation at line 640 (observe),
\* pickAction at line 648 (decide), stepMovement at line 659 (move) and
\* attemptTake at line 694 (take).
AbandonedAtObserve(sim, w) ==
  [ sim EXCEPT !.t = w.t, !.tick = w.tick, !.rng = w.gl.rng,
               !.agents = [ A |-> w.gl.A, B |-> w.gl.B ] ]

AbandonedAtDecide(sim, w) ==
  [ sim EXCEPT !.t = w.t, !.tick = w.tick, !.rng = w.seenA.rng, !.agents = w.bel ]

AbandonedAtMove(sim, w) ==
  [ sim EXCEPT !.t = w.t, !.tick = w.tick, !.rng = w.dec.B.rng,
               !.agents = [ A |-> w.dec.A.me, B |-> w.dec.B.me ] ]

AbandonedAtTake(sim, w) ==
  [ sim EXCEPT !.t = w.t, !.tick = w.tick, !.rng = w.eyeB.rng,
               !.agents = [ A |-> w.eyeA.ag, B |-> w.eyeB.ag ] ]

\* The tick of lines 619-729 from the simulation sim, abandoned at the
\* statement at.
Abandoned(cfg, sim, at) ==
  CASE at = "observe" -> AbandonedAtObserve(sim, TickBegin(cfg, sim))
    [] at = "decide" ->
         AbandonedAtDecide(sim,
           TickBeliefs(cfg, sim,
           TickObserveA(cfg, sim,
           TickObserveB(cfg, sim,
           TickBegin(cfg, sim)))))
    [] at = "move" ->
         AbandonedAtMove(sim,
           TickDecide(cfg, sim,
           TickBeliefs(cfg, sim,
           TickObserveA(cfg, sim,
           TickObserveB(cfg, sim,
           TickBegin(cfg, sim))))))
    [] at = "take" ->
         AbandonedAtTake(sim,
           TickEyesB(cfg, sim,
           TickEyesA(cfg, sim,
           TickMove(cfg, sim,
           TickDecide(cfg, sim,
           TickBeliefs(cfg, sim,
           TickObserveA(cfg, sim,
           TickObserveB(cfg, sim,
           TickBegin(cfg, sim)))))))))

\* SubStep with "sim.t += dtEff" ahead of the test of pauseT.
SubStep_ClockRuns(cfg, running, sim0) ==
  LET dtEff == dtEffOf(cfg)
      sim == [ sim0 EXCEPT !.subtitleT = sim0.subtitleT + dtEff ]
  IN IF sim.pauseT > 0
     THEN [ sim |-> [ sim EXCEPT !.pauseT = Max2(0, sim.pauseT - dtEff),
                                 !.t = sim.t + dtEff ],
            last |-> [ kind |-> "paused", pre |-> sim0 ] ]
     ELSE IF running THEN [ Tick(cfg, sim) EXCEPT !.last.pre = sim0 ]
     ELSE [ sim |-> sim, last |-> [ kind |-> "stopped", pre |-> sim0 ] ]

\* SubStep drawing the two glances from the generator also while stopped.
SubStep_IdleDraw(cfg, running, sim0) ==
  LET dtEff == dtEffOf(cfg)
      sim == [ sim0 EXCEPT !.subtitleT = sim0.subtitleT + dtEff ]
  IN IF sim.pauseT > 0
     THEN [ sim |-> [ sim EXCEPT !.pauseT = Max2(0, sim.pauseT - dtEff) ],
            last |-> [ kind |-> "paused", pre |-> sim0 ] ]
     ELSE IF running THEN [ Tick(cfg, sim) EXCEPT !.last.pre = sim0 ]
     ELSE [ sim |-> [ sim EXCEPT !.rng = Adv(Adv(sim.rng)) ],
            last |-> [ kind |-> "stopped", pre |-> sim0 ] ]

\* SubStep taking a full second off pauseT, below zero too.
SubStep_PauseBelowZero(cfg, running, sim0) ==
  LET dtEff == dtEffOf(cfg)
      sim == [ sim0 EXCEPT !.subtitleT = sim0.subtitleT + dtEff ]
  IN IF sim.pauseT > 0
     THEN [ sim |-> [ sim EXCEPT !.pauseT = sim.pauseT - 3000 ],
            last |-> [ kind |-> "paused", pre |-> sim0 ] ]
     ELSE IF running THEN [ Tick(cfg, sim) EXCEPT !.last.pre = sim0 ]
     ELSE [ sim |-> sim, last |-> [ kind |-> "stopped", pre |-> sim0 ] ]

\* The sub-step with the test of running placed before the pause countdown.
SubStep_StoppedHoldsPause(cfg, running, sim0) ==
  LET dtEff == dtEffOf(cfg)
      sim == [ sim0 EXCEPT !.subtitleT = sim0.subtitleT + dtEff ]
  IN IF ~running
     THEN [ sim |-> sim, last |-> [ kind |-> "stopped", pre |-> sim0 ] ]
     ELSE IF sim.pauseT > 0
     THEN [ sim |-> [ sim EXCEPT !.pauseT = Max2(0, sim.pauseT - dtEff) ],
            last |-> [ kind |-> "paused", pre |-> sim0 ] ]
     ELSE [ Tick(cfg, sim) EXCEPT !.last.pre = sim0 ]

\* Lines 611-731: one iteration of the sub-step loop.
SubStep(cfg, running, sim0) ==
  LET dtEff == dtEffOf(cfg)
      sim == [ sim0 EXCEPT !.subtitleT = sim0.subtitleT + dtEff ]
  IN IF sim.pauseT > 0
     THEN [ sim |-> [ sim EXCEPT !.pauseT = Max2(0, sim.pauseT - dtEff) ],
            last |-> [ kind |-> "paused", pre |-> sim0 ] ]
     ELSE IF running THEN [ Tick(cfg, sim) EXCEPT !.last.pre = sim0 ]
     ELSE [ sim |-> sim, last |-> [ kind |-> "stopped", pre |-> sim0 ] ]

\* For each agent, the number of consecutive ticks, the most recent one
\* included, whose action was move_to(bluffTarget), and 0 once a pickup of
\* the agent has cleared its bluff: n is the number before the sub-step that
\* went through l.
DecoyTicks(n, l) ==
  IF l.kind # "tick" THEN n
  ELSE [ a \in { "A", "B" } |->
         IF l.took[a] # 0 THEN 0
         ELSE IF l.pick[a].act.bluff THEN 1
         ELSE IF l.bel[a].bluffTicks > 0 /\ l.bel[a].bluffTarget # NULL THEN n[a] + 1
         ELSE 0 ]

\* What the sub-step nx leaves, with the count of decoy ticks brought up to date.
Stepped(st, nx) ==
  [ sim |-> nx.sim, last |-> nx.last, decoyTicks |-> DecoyTicks(st.decoyTicks, nx.last) ]

\* The loop with "break" for the "continue" of line 615: a paused sub-step
\* ends the frame.
RECURSIVE RunSteps_Break(_, _, _, _)
RunSteps_BreakAfter(cfg, running, nx, steps) ==
  IF nx.last.kind = "paused" THEN nx ELSE RunSteps_Break(cfg, running, nx, steps - 1)

RunSteps_Break(cfg, running, st, steps) ==
  IF steps = 0 THEN st
  ELSE RunSteps_BreakAfter(cfg, running, Stepped(st, SubStep(cfg, running, st.sim)), steps)

\* for (let i = 0; i < steps; i++) { ... }
RECURSIVE RunSteps(_, _, _, _)
RunSteps(cfg, running, st, steps) ==
  IF steps = 0 THEN st
  ELSE RunSteps(cfg, running, Stepped(st, SubStep(cfg, running, st.sim)), steps - 1)

\* const elapsed = Math.min(0.1, (ts - last) / 1000), in milliseconds;
\* const steps = Math.max(1, Math.floor(elapsed / cfg.dt))
StepsOf(cfg, elapsedMs) == Max2(1, (3 * Min2(100, elapsedMs)) \div cfg.dt)

(* --------------------------- The state machine --------------------------- *)

\* cfg         the configuration (useState(DEFAULTS), its seed set by reset)
\* running     the run/stop switch
\* sim         simRef.current
\* last        what the most recent sub-step went through (see Tick, SubStep)
\* steps       the number of sub-steps executed since initSim
\* stopped     the number of those executed while the simulation was stopped
\* decoyTicks  see DecoyTicks
\* twin        a second run of the program from the same configuration, with
\*             its own frames (NoTwin where there is none)
\* err         the error the interface shows (useState(null), set by the
\*             catch of the loop), NULL for none
\* raf         an animation frame is requested (rafRef.current is set)
VARIABLES cfg, running, sim, last, steps, stopped, decoyTicks, twin, err, raf

vars == << cfg, running, sim, last, steps, stopped, decoyTicks, twin, err, raf >>

\* The sub-steps explored after an initSim, and those among them explored
\* with the simulation stopped; the sub-steps explored of each of two runs
\* side by side.
MaxSteps == 130
MaxStopped == 1
MaxTwin == 40

\* The seeds explored.
Seeds == { 0, 758, 1337 }

\* What the seed field may hold when reset is pressed: a number (num, with its
\* value v) or text that Number() turns into NaN.
SeedInputs == { [ num |-> TRUE, v |-> s ] : s \in Seeds } \cup { [ num |-> FALSE, v |-> 0 ] }

\* The configurations explored: the defaults at the fastest scene rate, and
\* variations of them.
Fast == [ DEFAULTS EXCEPT !.simRate = 150 ]
Presets ==
  { Fast,
    [ Fast EXCEPT !.bluffChance = 60, !.bluffDurationTicks = 3 ],
    [ Fast EXCEPT !.tomStrength = 0, !.autoPause = FALSE, !.noisePos = 0,
                  !.noiseAng = 0, !.bluffChance = 0 ] }

Configs == { [ c EXCEPT !.seed = s ] : c \in Presets, s \in Seeds }

\* initSim over the configurations explored, evaluated once.
InitSims == { [ cfg |-> c, sim |-> initSim(c) ] : c \in Configs }
InitSimOf(c) == (CHOOSE p \in InitSims : p.cfg = c).sim

\* The configurations of the two runs side by side.
TwinConfigs == { [ Fast EXCEPT !.seed = 69 ] }

\* The configurations of the scenario with the bluff probability set to 1,
\* which no slider reaches.
ScenarioConfigs ==
  { [ Fast EXCEPT !.bluffChance = 100, !.bluffDurationTicks = 3, !.seed = s ] :
      s \in { 817, 1117 } }

\* The frame durations explored, in milliseconds.
Elapsed == { 16 }

NoTwin == [ on |-> FALSE ]
NoDecoy == [ a \in { "A", "B" } |-> 0 ]

Init ==
  /\ cfg \in Configs
  /\ running = TRUE
  /\ sim = InitSimOf(cfg)
  /\ last = [ kind |-> "init", pre |-> sim ]
  /\ steps = 0
  /\ stopped = 0
  /\ decoyTicks = NoDecoy
  /\ twin = NoTwin
  /\ err = NULL
  /\ raf = TRUE

\* const loop = (ts) => { ... }: one animation frame, among the first most
\* sub-steps after initSim.
FrameWithin(elapsedMs, most) ==
  LET n == StepsOf(cfg, elapsedMs)
  IN /\ raf
     /\ steps + n <= most
     /\ (IF running THEN 0 ELSE stopped + n) <= MaxStopped
     /\ \E st \in { RunSteps(cfg, running,
                              [ sim |-> sim, last |-> last, decoyTicks |-> decoyTicks ], n) } :
          /\ sim' = st.sim
          /\ last' = st.last
          /\ decoyTicks' = st.decoyTicks
     /\ steps' = steps + n
     /\ stopped' = IF running THEN stopped ELSE stopped + n
     /\ UNCHANGED << cfg, running, twin, err, raf >>

Frame(elapsedMs) == FrameWithin(elapsedMs, MaxSteps)

\* onClick={() => setRunning((r) => !r)}; the effect of lines 592-745, which
\* depends on running, requests an animation frame anew.
ToggleRunning ==
  /\ running' = ~running
  /\ raf' = TRUE
  /\ UNCHANGED << cfg, sim, last, steps, stopped, decoyTicks, twin, err >>

\* What a reset replaces, for the record: whether the simulation had
\* ticked, held a taken resource, an effect, a memory, a bluff in progress.
Replaced(s) ==
  [ ticked |-> s.tick > 0,
    taken |-> \E i \in 1..Len(s.resources) : s.resources[i].takenBy # NULL,
    effects |-> s.effects # << >>,
    memory |-> \E a \in { "A", "B" } : s.agents[a].memOther # << >>,
    bluff |-> \E a \in { "A", "B" } : s.agents[a].bluffTicks > 0 ]

\* reset keeping the resource list of the simulation it replaces.
reset_KeepResources(newSeed) ==
  LET nextCfg == [ cfg EXCEPT !.seed = IF newSeed.num THEN newSeed.v ELSE 0 ]
  IN /\ cfg' = nextCfg
     /\ sim' = [ InitSimOf(nextCfg) EXCEPT !.resources = sim.resources ]
     /\ last' = [ kind |-> "reset", pre |-> sim', replaced |-> Replaced(sim) ]
     /\ steps' = 0
     /\ stopped' = 0
     /\ decoyTicks' = NoDecoy
     /\ err' = NULL
     /\ raf' = TRUE
     /\ UNCHANGED << running, twin >>

\* const reset = (newSeed = seed) => { ... }; setCfg makes the effect of
\* lines 592-745 request an animation frame anew.
reset(newSeed) ==
  LET nextCfg == [ cfg EXCEPT !.seed = IF newSeed.num THEN newSeed.v ELSE 0 ]
  IN /\ cfg' = nextCfg
     /\ sim' = InitSimOf(nextCfg)
     /\ last' = [ kind |-> "reset", pre |-> sim', replaced |-> Replaced(sim) ]
     /\ steps' = 0
     /\ stopped' = 0
     /\ decoyTicks' = NoDecoy
     /\ err' = NULL
     /\ raf' = TRUE
     /\ UNCHANGED << running, twin >>

Next ==
  \/ \E e \in Elapsed : Frame(e)
  \/ ToggleRunning
  \/ \E s \in SeedInputs : reset(s)

Spec == Init /\ [][Next]_vars

(* ------------------- The scenario: bluff probability 1 ------------------- *)

InitScenario ==
  /\ cfg \in ScenarioConfigs
  /\ running = TRUE
  /\ sim = initSim(cfg)
  /\ last = [ kind |-> "init", pre |-> sim ]
  /\ steps = 0
  /\ stopped = 0
  /\ decoyTicks = NoDecoy
  /\ twin = NoTwin
  /\ err = NULL
  /\ raf = TRUE

NextScenario ==
  \/ \E e \in Elapsed : Frame(e)
  \/ ToggleRunning

SpecScenario == InitScenario /\ [][NextScenario]_vars

(* ------------------------- Two runs side by side ------------------------- *)

InitTwin ==
  /\ cfg \in TwinConfigs
  /\ running = TRUE
  /\ sim = initSim(cfg)
  /\ last = [ kind |-> "init", pre |-> sim ]
  /\ steps = 0
  /\ stopped = 0
  /\ decoyTicks = NoDecoy
  /\ twin = [ on |-> TRUE, sim |-> sim, steps |-> 0 ]
  /\ err = NULL
  /\ raf = TRUE

\* One animation frame of the first run.
FrameOne(elapsedMs) ==
  /\ steps + StepsOf(cfg, elapsedMs) <= MaxTwin
  /\ Frame(elapsedMs)

\* One animation frame of the second run, which is never stopped.
FrameTwin(elapsedMs) ==
  LET n == StepsOf(cfg, elapsedMs)
      st == RunSteps(cfg, TRUE,
                     [ sim |-> twin.sim, last |-> last, decoyTicks |-> NoDecoy ], n)
  IN /\ twin.steps + n <= MaxTwin
     /\ twin' = [ on |-> TRUE, sim |-> st.sim, steps |-> twin.steps + n ]
     /\ UNCHANGED << cfg, running, sim, last, steps, stopped, decoyTicks, err, raf >>

NextTwin ==
  \/ \E e \in Elapsed : FrameOne(e)
  \/ ToggleRunning
  \/ \E e \in Elapsed : FrameTwin(e)

SpecTwin == InitTwin /\ [][NextTwin]_vars

(* ------------------------ Frames of several sub-steps ------------------------ *)

\* Frame durations, in milliseconds, that make a frame of two sub-steps and
\* one of three (elapsed is capped at 0.1 s) at dt = 1/30 s.
BatchElapsed == { 67, 100 }

\* The first run takes frames of two or three sub-steps, the second run
\* frames of one.
NextBatch ==
  \/ \E e \in BatchElapsed : FrameOne(e)
  \/ \E e \in Elapsed : FrameTwin(e)

SpecBatch == InitTwin /\ [][NextBatch]_vars

(* ---------------- visibleObservation on chosen positions ---------------- *)

\* The observer stands at (300, 260) with one of these headings (tenths of a
\* degree, as theta accumulates without being normalised), and the subject at
\* one of these positions: at viewDist = 230 exactly on and off the axes, one
\* pixel beyond, and nearer; fovDeg = 120, so half the field of view is 600.
FovThetas ==
  { 0, 300, 599, 600, 601, -600, -601, 900, 1200, 1199, 1500, 2400, 2401, -3000, 4200, 4201 }
FovSpots ==
  { << 530, 260 >>, << 531, 260 >>, << 300, 490 >>, << 300, 30 >>, << 70, 260 >>,
    << 438, 444 >>, << 439, 444 >>, << 400, 260 >> }

InitFov ==
  /\ cfg = Fast
  /\ running = TRUE
  /\ \E th \in FovThetas, p \in FovSpots :
       sim = [ initSim(Fast) EXCEPT !.agents.A.x = 300, !.agents.A.y = 260,
                                    !.agents.A.theta = th,
                                    !.agents.B.x = p[1], !.agents.B.y = p[2] ]
  /\ last = [ kind |-> "init", pre |-> sim ]
  /\ steps = 0
  /\ stopped = 0
  /\ decoyTicks = NoDecoy
  /\ twin = NoTwin
  /\ err = NULL
  /\ raf = TRUE

\* Lines 640-641: each agent's observation of the other, A's first.
Observe ==
  /\ steps = 0
  /\ \E w \in { TickObserveA(cfg, sim, TickObserveB(cfg, sim,
                  [ gl |-> [ A |-> sim.agents.A, B |-> sim.agents.B, rng |-> sim.rng ] ])) } :
       /\ sim' = [ sim EXCEPT !.rng = w.seenA.rng ]
       /\ last' = [ kind |-> "observe", pre |-> sim,
                    obs |-> [ A |-> w.seenB.obs, B |-> w.seenA.obs ] ]
  /\ steps' = 1
  /\ UNCHANGED << cfg, running, stopped, decoyTicks, twin, err, raf >>

SpecFov == InitFov /\ [][Observe]_vars

(* ------------------ Decisions between near-equal utilities ------------------ *)

\* The sub-steps explored from each of the placements below.
MaxPick == 12

\* A stands at (300, 260) and B out of its sight; seme_ambra_1 lies 50 or 51
\* pixels from A and seme_blu_0 74 to 78 pixels: with the uniform beliefs of
\* initSim the utilities A gives the two differ by (76 - 50) / 260 less the
\* 26 pixels' worth, so that they are equal at 76 and 50.
PickSpots == { << b, m >> : b \in 374..378, m \in { 250, 249 } }

InitPick ==
  /\ cfg = [ Fast EXCEPT !.bluffChance = 0 ]
  /\ running = TRUE
  /\ \E p \in PickSpots :
       sim = [ initSim(cfg) EXCEPT !.agents.A.x = 300, !.agents.A.y = 260,
                                   !.agents.B.x = 720, !.agents.B.y = 234,
                                   !.resources[1].x = p[1], !.resources[1].y = 260,
                                   !.resources[2].x = p[2], !.resources[2].y = 260,
                                   !.resources[3].x = 600, !.resources[3].y = 400 ]
  /\ last = [ kind |-> "init", pre |-> sim ]
  /\ steps = 0
  /\ stopped = 0
  /\ decoyTicks = NoDecoy
  /\ twin = NoTwin
  /\ err = NULL
  /\ raf = TRUE

\* One animation frame, among the first MaxPick sub-steps.
FramePick(elapsedMs) ==
  /\ steps + StepsOf(cfg, elapsedMs) <= MaxPick
  /\ Frame(elapsedMs)

NextPick == \E e \in Elapsed : FramePick(e)

SpecPick == InitPick /\ [][NextPick]_vars

(* ------------------------- Failures within a tick ------------------------- *)

\* The sub-steps explored of a run in which statements of the tick throw.
MaxFail == 4

\* The statements of the tick taken to throw: visibleObservation at line
\* 640, pickAction at line 648, stepMovement at line 659, attemptTake at
\* line 694.
FailSites == { "observe", "decide", "move", "take" }

\* One animation frame, of one sub-step, whose tick throws at the statement
\* at. Lines 733-738: catch (e) { console.error(e); setErr(...);
\* cancelAnimationFrame(rafRef.current); rafRef.current = null }
FrameFails(at) ==
  /\ raf
  /\ running
  /\ sim.pauseT = 0
  /\ steps + 1 <= MaxFail
  /\ sim' = Abandoned(cfg, [ sim EXCEPT !.subtitleT = sim.subtitleT + dtEffOf(cfg) ], at)
  /\ last' = [ kind |-> "failed", pre |-> sim, at |-> at ]
  /\ err' = "error"
  /\ raf' = FALSE
  /\ steps' = steps + 1
  /\ UNCHANGED << cfg, running, stopped, decoyTicks, twin >>

\* One animation frame that completes, among the first MaxFail sub-steps.
FrameShort(elapsedMs) ==
  /\ steps + StepsOf(cfg, elapsedMs) <= MaxFail
  /\ Frame(elapsedMs)

NextFail ==
  \/ \E e \in Elapsed : FrameShort(e)
  \/ \E at \in FailSites : FrameFails(at)
  \/ ToggleRunning
  \/ \E s \in SeedInputs : reset(s)

SpecFail == Init /\ [][NextFail]_vars

(* -------------------------- The parameter sliders -------------------------- *)

\* Number(v) of an input that is no number, and Math.min and Math.max of it:
\* NaN, which no comparison with a number finds within a range; an integer
\* below every range stands for it.
NaN == -1000000

\* The inputs of lines 853-886, each with the bounds a and b its onChange
\* hands to setNumClamped, in the units of DEFAULTS.
Params ==
  { [ key |-> "storyRate", a |-> 0, b |-> 100 ],
    [ key |-> "tomStrength", a |-> 0, b |-> 100 ],
    [ key |-> "conflictCost", a |-> 0, b |-> 250 ],
    [ key |-> "cooperationBonus", a |-> 0, b |-> 100 ],
    [ key |-> "simRate", a |-> 20, b |-> 150 ],
    [ key |-> "fovDeg", a |-> 40, b |-> 180 ],
    [ key |-> "viewDist", a |-> 120, b |-> 360 ],
    [ key |-> "noisePos", a |-> 0, b |-> 60 ],
    [ key |-> "noiseAng", a |-> 0, b |-> 250 ],
    [ key |-> "bluffChance", a |-> 0, b |-> 60 ],
    [ key |-> "bluffDurationTicks", a |-> 0, b |-> 70 ] }

\* The values explored for an input with the bounds a and b: numbers below,
\* at, between and above the bounds, and a text that is no number.
InputsOf(a, b) ==
  { [ num |-> TRUE, v |-> x ] : x \in { a - 7, a, (a + b) \div 2, b, b + 7 } }
    \cup { [ num |-> FALSE, v |-> 0 ] }

\* clamp(Number(v), a, b) = Math.max(a, Math.min(b, Number(v)))
clampNumber(v, a, b) == IF v.num THEN clamp(v.v, a, b) ELSE NaN

\* The parameters explored differ from the defaults in at most MaxEdits keys.
MaxEdits == 2

Edited(c) == { q \in Params : c[q.key] # Fast[q.key] }

\* const setNumClamped = (key, v, a, b) => { ... }; setCfg makes the effect
\* of lines 592-745 request an animation frame anew.
setNumClamped(key, v, a, b) ==
  /\ cfg' = [ cfg EXCEPT ![key] = clampNumber(v, a, b) ]
  /\ Cardinality(Edited(cfg')) <= MaxEdits
  /\ last' = [ kind |-> "param", pre |-> sim, key |-> key, v |-> v, a |-> a, b |-> b ]
  /\ raf' = TRUE
  /\ UNCHANGED << running, sim, steps, stopped, decoyTicks, twin, err >>

InitParams ==
  /\ cfg = Fast
  /\ running = TRUE
  /\ sim = InitSimOf(cfg)
  /\ last = [ kind |-> "init", pre |-> sim ]
  /\ steps = 0
  /\ stopped = 0
  /\ decoyTicks = NoDecoy
  /\ twin = NoTwin
  /\ err = NULL
  /\ raf = TRUE

NextParams == \E q \in Params : \E v \in InputsOf(q.a, q.b) : setNumClamped(q.key, v, q.a, q.b)

SpecParams == InitParams /\ [][NextParams]_vars

(* ------------------------ The run to the first pickups ------------------------ *)

\* The sub-steps explored of the runs below.
MaxFirst == 420

\* Seed 1337 without observation noise and without bluffs: the defaults, the
\* defaults at the fastest scene rate, and those without theory of mind and
\* without pauses.
FirstConfigs ==
  { [ DEFAULTS EXCEPT !.noisePos = 0, !.noiseAng = 0, !.bluffChance = 0 ],
    [ Fast EXCEPT !.noisePos = 0, !.noiseAng = 0, !.bluffChance = 0 ],
    [ Fast EXCEPT !.tomStrength = 0, !.autoPause = FALSE, !.noisePos = 0,
                  !.noiseAng = 0, !.bluffChance = 0 ] }

InitFirst ==
  /\ cfg \in FirstConfigs
  /\ running = TRUE
  /\ sim = initSim(cfg)
  /\ last = [ kind |-> "init", pre |-> sim ]
  /\ steps = 0
  /\ stopped = 0
  /\ decoyTicks = NoDecoy
  /\ twin = NoTwin
  /\ err = NULL
  /\ raf = TRUE

\* One animation frame, among the first MaxFirst sub-steps.
FrameFirst(elapsedMs) == FrameWithin(elapsedMs, MaxFirst)

NextFirst == \E e \in Elapsed : FrameFirst(e)

SpecFirst == InitFirst /\ [][NextFirst]_vars

(* ----------------------- Runs with early bluffs ----------------------- *)

\* Seeds whose runs, with the bluff probability at the top of its slider,
\* have an agent start a bluff while no resource is taken yet (47, 113),
\* have the other agent take the decoy while the bluff lasts (483), or
\* have a bluffing agent pass over its decoy and later over its goal (3662).
\* With autoPause off, seed 125 has a pickup and then the start of a bluff.
BluffConfigs ==
  { [ Fast EXCEPT !.bluffChance = 60, !.seed = s ] : s \in { 47, 113, 483, 3662 } }
  \cup { [ Fast EXCEPT !.bluffChance = 60, !.autoPause = FALSE, !.seed = 125 ] }

InitBluff ==
  /\ cfg \in BluffConfigs
  /\ running = TRUE
  /\ sim = initSim(cfg)
  /\ last = [ kind |-> "init", pre |-> sim ]
  /\ steps = 0
  /\ stopped = 0
  /\ decoyTicks = NoDecoy
  /\ twin = NoTwin
  /\ err = NULL
  /\ raf = TRUE

NextBluff == \E e \in Elapsed : Frame(e)

SpecBluff == InitBluff /\ [][NextBluff]_vars

(* ------------------------- Agents at the margin ------------------------- *)

\* The sub-steps explored from each of the placements below.
MaxArena == 3

\* Positions on and next to the margin of 16 the clamps of stepMovement
\* keep, and headings along the axes and the diagonals, in tenths of a degree.
ArenaXs == { 16, 17, Fast.width - 17, Fast.width - 16 }
ArenaYs == { 16, 260, Fast.height - 16 }
ArenaThetas == { 0, 450, 900, 1350, 1800, -450, -900, -1350 }

\* A stands at such a position with such a heading; the resources and B
\* are those of initSim.
InitArena ==
  /\ cfg = Fast
  /\ running = TRUE
  /\ \E x \in ArenaXs, y \in ArenaYs, th \in ArenaThetas :
       sim = [ initSim(cfg) EXCEPT !.agents.A.x = x, !.agents.A.y = y,
                                   !.agents.A.theta = th ]
  /\ last = [ kind |-> "init", pre |-> sim ]
  /\ steps = 0
  /\ stopped = 0
  /\ decoyTicks = NoDecoy
  /\ twin = NoTwin
  /\ err = NULL
  /\ raf = TRUE

\* One animation frame, among the first MaxArena sub-steps.
FrameArena(elapsedMs) == FrameWithin(elapsedMs, MaxArena)

NextArena == \E e \in Elapsed : FrameArena(e)

SpecArena == InitArena /\ [][NextArena]_vars

(* --------------------------- Runs with many beats --------------------------- *)

\* Seeds whose runs, with the story rate, the sight and the bluff
\* probability at the top of their sliders and without pauses, fill the
\* story log within MaxFirst sub-steps.
StoryConfigs ==
  { [ Fast EXCEPT !.storyRate = 100, !.autoPause = FALSE, !.viewDist = 360,
                  !.fovDeg = 180, !.bluffChance = 60, !.seed = s ] : s \in { 16, 153 } }

InitStory ==
  /\ cfg \in StoryConfigs
  /\ running = TRUE
  /\ sim = initSim(cfg)
  /\ last = [ kind |-> "init", pre |-> sim ]
  /\ steps = 0
  /\ stopped = 0
  /\ decoyTicks = NoDecoy
  /\ twin = NoTwin
  /\ err = NULL
  /\ raf = TRUE

NextStory == \E e \in Elapsed : FrameFirst(e)

SpecStory == InitStory /\ [][NextStory]_vars

(* ------------------------------ Properties ------------------------------ *)

Agents == { "A", "B" }

\* The most recent sub-step was a tick.
IsTick == last.kind = "tick"

\* A bluff is in progress for the agent: me.bluffTicks > 0 && me.bluffTarget
Bluffing(ag) == ag.bluffTicks > 0 /\ ag.bluffTarget # NULL

\* The agent stands within cfg.takeRadius of resource r.
WithinTake(c, ag, r) == dist2(ag.x, ag.y, r.x, r.y) <= c.takeRadius * c.takeRadius

\* The agent's goal is null or a resource of the list that is not taken.
GoalUntaken(ag, resources) ==
  \/ ag.goal = NULL
  \/ /\ resourceById(resources, ag.goal) # 0
     /\ resources[resourceById(resources, ag.goal)].takenBy = NULL

\* The sum of a belief map's values.
BeliefSum(b) == SeqSum(b, SelectSeq(<< ResId(1), ResId(2), ResId(3) >>, LAMBDA k : k \in DOMAIN b))

\* What one step leaves of the resources: each keeps its id and its
\* position, a taken one keeps its taker, an untaken one stays untaken or is
\* taken by an agent, and a resource an agent took in the step's tick is
\* that agent's after it (no second change within the tick).
ResourcesKept ==
  /\ Len(sim'.resources) = Len(sim.resources)
  /\ last'.kind = "tick" =>
       \A a \in Agents : last'.took[a] # 0 => sim'.resources[last'.took[a]].takenBy = a
  /\ \A i \in 1..Len(sim.resources) :
       LET r == sim.resources[i]
           q == sim'.resources[i]
       IN /\ q.id = r.id /\ q.x = r.x /\ q.y = r.y
          /\ r.takenBy # NULL => q.takenBy = r.takenBy
          /\ r.takenBy = NULL => q.takenBy \in { NULL, "A", "B" }

\* C1: in every step other than a reset, no resource changes position, a
\* taken resource keeps its taker for ever, and takenBy changes only from
\* null to an agent's id: so it changes at most once.
C1_TakenOnce == [][ (\E s \in SeedInputs : reset(s)) \/ ResourcesKept ]_vars

\* C1, its case: a tick took a resource while another one, taken in an
\* earlier tick, kept its taker.
C1_Reached ==
  /\ IsTick
  /\ \E i, j \in 1..Len(sim.resources) :
       /\ i # j
       /\ last.pre.resources[i].takenBy # NULL
       /\ sim.resources[i].takenBy = last.pre.resources[i].takenBy
       /\ last.pre.resources[j].takenBy = NULL
       /\ sim.resources[j].takenBy # NULL

\* C2: at the end of every tick each agent's goal is null or the id of a
\* resource that is not taken.
C2_GoalUntaken ==
  IsTick => \A a \in Agents : GoalUntaken(sim.agents[a], sim.resources)

\* C3: after every tick that leaves a resource untaken, every value of each
\* agent's belief map lies in [0, 1] and the values sum to 1 (within the
\* rounding of one unit per entry).
C3_BeliefDistribution ==
  (IsTick /\ Available(sim.resources) # << >>) =>
    \A a \in Agents :
      LET b == sim.agents[a].beliefOther
      IN /\ \A k \in DOMAIN b : 0 <= b[k] /\ b[k] <= PScale
         /\ Abs(BeliefSum(b) - PScale) <= Cardinality(DOMAIN b)

\* The agent's decision was to head for its decoy: the bluff started, or
\* went on.
DecoyBound(me, out) == out.act.bluff \/ Bluffing(me)

\* C4 as claimed: on the ticks an agent heads for its decoy its goal equals
\* the decoy, and from the start of a bluff of bluffDurationTicks = D ticks
\* these ticks number D and no more.
C4_GoalIsDecoy ==
  IsTick =>
    \A a \in Agents :
      DecoyBound(last.bel[a], last.pick[a]) =>
        /\ last.pick[a].me.goal = last.pick[a].act.targetId
        /\ decoyTicks[a] <= cfg.bluffDurationTicks

\* C4 as amended: the action of an agent that starts a bluff of D ticks is
\* move_to(decoy), its goal staying another resource, on the tick of the
\* start and on the D decision ticks that follow, unless its pickup clears
\* the bluff earlier: while the ticks towards the decoy are counted they and
\* the bluffTicks that remain add up to D + 1, and with none remaining the
\* next decision is a normal one.
C4_BluffDuration ==
  \A a \in Agents :
    LET ag == sim.agents[a]
    IN /\ decoyTicks[a] <= cfg.bluffDurationTicks + 1
       /\ decoyTicks[a] > 0 =>
            /\ decoyTicks[a] + ag.bluffTicks = cfg.bluffDurationTicks + 1
            /\ ag.bluffTarget # NULL /\ ag.bluffTarget # ag.goal
       /\ decoyTicks[a] = 0 => ~Bluffing(ag)
       /\ IsTick /\ DecoyBound(last.bel[a], last.pick[a]) =>
            /\ last.pick[a].act.type = "move_to"
            /\ last.pick[a].act.targetId = last.pick[a].me.bluffTarget
            /\ last.pick[a].me.goal = last.bel[a].goal

\* C4, its case: a bluff has run its full length, and the agent is back to
\* a normal decision on the next tick.
C4_Reached ==
  \E a \in Agents :
    /\ cfg.bluffDurationTicks > 0
    /\ decoyTicks[a] = cfg.bluffDurationTicks + 1
    /\ sim.agents[a].bluffTicks = 0

\* C5: a call of pickAction made while the agent's bluff is in progress
\* (bluffTicks > 0 and bluffTarget set) takes 1 from bluffTicks, returns
\* move_to(bluffTarget), changes nothing else of the agent (goal, bluffTarget
\* and mood included) and draws nothing from the generator.
C5_CommittedBluff ==
  IsTick =>
    \A a \in Agents :
      LET me == last.bel[a]
          out == last.pick[a]
      IN Bluffing(me) =>
           /\ out.me.bluffTicks = me.bluffTicks - 1
           /\ out.act.type = "move_to" /\ out.act.targetId = me.bluffTarget
           /\ out.me = [ me EXCEPT !.bluffTicks = me.bluffTicks - 1 ]
           /\ out.me.goal = me.goal /\ out.me.bluffTarget = me.bluffTarget
           /\ out.me.mood = me.mood
           /\ out.rng = last.rngIn[a]

\* C5, its case: a tick in which an agent decided with its bluff in progress.
C5_Reached == IsTick /\ \E a \in Agents : Bluffing(last.bel[a])

\* The agent, as it enters pickAction, is not bluffing and its most likely
\* belief about the other is its own goal with confidence above 0.58.
ConflictLikely(me) ==
  LET belief == mostLikelyBelief(me)
  IN /\ ~Bluffing(me)
     /\ belief.rid # NULL /\ belief.rid = me.goal /\ belief.p * 100 > 58 * PScale

\* The call of pickAction that returned out started a bluff.
BluffEntered(c, out) ==
  /\ out.me.bluffTicks = c.bluffDurationTicks
  /\ out.me.bluffTarget # NULL
  /\ out.act.bluff

\* An untaken resource other than the agent's goal exists.
DecoyExists(me, resources) ==
  \E i \in 1..Len(resources) : resources[i].takenBy = NULL /\ resources[i].id # me.goal

\* C6 as claimed: with bluffChance = 1, an agent that decides while not
\* bluffing and with its most likely belief equal to its goal above the
\* threshold enters the bluffing state on that tick.
C6_AlwaysBluffs ==
  (IsTick /\ cfg.bluffChance >= 100) =>
    \A a \in Agents :
      ConflictLikely(last.bel[a]) => BluffEntered(cfg, last.pick[a])

\* C6 as amended: the same, provided a resource other than the agent's goal
\* is still untaken.
C6_BluffsWhenDecoy ==
  (IsTick /\ cfg.bluffChance >= 100) =>
    \A a \in Agents :
      (ConflictLikely(last.bel[a]) /\ DecoyExists(last.bel[a], last.pre.resources))
        => BluffEntered(cfg, last.pick[a])

\* C6, its case: with bluffChance = 1 an agent decided with a likely conflict
\* and a decoy at hand.
C6_Reached ==
  /\ IsTick /\ cfg.bluffChance >= 100
  /\ \E a \in Agents :
       ConflictLikely(last.bel[a]) /\ DecoyExists(last.bel[a], last.pre.resources)

\* The simulation but for its subtitle timer.
SansSubtitleT(s) == [ s EXCEPT !.subtitleT = 0 ]

Other(a) == IF a = "A" THEN "B" ELSE "A"

\* Where an agent is and where it heads.
Pose(ag) == [ x |-> ag.x, y |-> ag.y, theta |-> ag.theta ]

\* C9: in a tick each agent's belief update and decision are made with both
\* agents where the previous tick left them: the observation is of the
\* other's pose then (within the noise), the agent handed to pickAction as
\* the other one has that pose, and the decision is the one pickAction makes
\* from nothing of the other agent but that position, so B's does not depend
\* on the goal A has just chosen.
C9_DecideBeforeMove ==
  IsTick =>
    \A a \in Agents :
      LET mine == last.pre.agents[a]
          theirs == last.pre.agents[Other(a)]
          o == last.obs[a]
      IN /\ Pose(last.bel[a]) = Pose(mine)
         /\ Pose(last.pick[a].me) = Pose(mine)
         /\ Pose(last.other[a]) = Pose(theirs)
         /\ o.seen =>
              /\ Abs(o.x - theirs.x) * 10 <= cfg.noisePos + 5
              /\ Abs(o.y - theirs.y) * 10 <= cfg.noisePos + 5
              /\ Abs(o.theta - theirs.theta) * 1000 <= cfg.noiseAng * 573 + 500
         /\ last.pick[a] = pickAction(cfg, last.rngIn[a], last.bel[a],
                                      [ x |-> theirs.x, y |-> theirs.y ],
                                      last.pre.resources)

\* C9, its case: in one tick A chose a new goal and moved, and B, seeing A,
\* decided too.
C9_Reached ==
  /\ IsTick
  /\ last.pick.A.me.goal # last.bel.A.goal
  /\ Pose(last.mov.A) # Pose(last.pre.agents.A)
  /\ last.obs.B.seen
  /\ last.pick.B.act.type = "move_to"

\* The agent, where the tick's motion left it, has an untaken goal within
\* takeRadius: the position of that resource in the list, 0 if it has not.
InReach(c, ag, resources) ==
  LET i == resourceById(resources, ag.goal)
  IN IF i # 0 /\ resources[i].takenBy = NULL /\ WithinTake(c, ag, resources[i])
     THEN i ELSE 0

\* Both agents come to the tick's pickups with the same untaken goal within
\* takeRadius.
TiedArrival ==
  /\ IsTick
  /\ InReach(cfg, last.mov.A, last.pre.resources) # 0
  /\ InReach(cfg, last.mov.B, last.pre.resources)
       = InReach(cfg, last.mov.A, last.pre.resources)

\* C10: in every tick A's pickup is resolved first, on the resources as the
\* previous tick left them, and B's on what A's left: so on a tied arrival A
\* takes the resource and B takes nothing.
C10_AFirst ==
  IsTick =>
    LET i == InReach(cfg, last.mov.A, last.pre.resources)
        j == InReach(cfg, last.mov.B, last.pre.resources)
    IN /\ last.took.A = i
       /\ last.took.B = IF j = i THEN 0 ELSE j
       /\ i # 0 => sim.resources[i].takenBy = "A"
       /\ TiedArrival => last.took.A = i /\ last.took.B = 0
                           /\ Len(sim.agents.B.carried) = Len(last.pre.agents.B.carried)

\* C10, its case: a tied arrival.
C10_Reached == TiedArrival

\* What C7 compares of a run: each agent's position, heading, goal, belief
\* and bluff state, each resource's claim, and the generator with the number
\* of its draws.
Trajectory(s) ==
  [ agents |-> [ a \in Agents |->
                 [ x |-> s.agents[a].x, y |-> s.agents[a].y, theta |-> s.agents[a].theta,
                   goal |-> s.agents[a].goal, beliefOther |-> s.agents[a].beliefOther,
                   bluffTicks |-> s.agents[a].bluffTicks,
                   bluffTarget |-> s.agents[a].bluffTarget ] ],
    claims |-> [ i \in 1..Len(s.resources) |-> s.resources[i].takenBy ],
    rng |-> s.rng ]

\* C7: two runs from the same seed and configuration, each with its own
\* frames and one of them stopped and resumed, agree on positions, headings,
\* goals, beliefs, bluff state, claims and draws whenever they have executed
\* the same number of ticks.
C7_SameTrajectory ==
  (twin.on /\ twin.sim.tick = sim.tick) => Trajectory(twin.sim) = Trajectory(sim)

\* C7, its case: the two runs have executed the same ticks, a pickup and the
\* pause after it among them, in different numbers of sub-steps.
C7_Reached ==
  /\ twin.on
  /\ twin.sim.tick = sim.tick
  /\ twin.steps # steps
  /\ sim.pauseT = 0 /\ twin.sim.pauseT = 0
  /\ \E i \in 1..Len(sim.resources) : sim.resources[i].takenBy # NULL

\* floor(elapsed / cfg.dt) for a frame that comes elapsedMs milliseconds after
\* the previous one, elapsed clamped to 0.1 s.
FloorSteps(c, elapsedMs) == (3 * Min2(100, elapsedMs)) \div c.dt

\* C11: every frame executes floor(elapsed / dt) sub-steps, and none when
\* elapsed < dt.
C11_FloorSteps ==
  [][ \A e \in Elapsed : Frame(e) => steps' = steps + FloorSteps(cfg, e) ]_vars


\* The absolute shortest-angle deviation of an angle a (tenths of a degree):
\* the least |a + k * 360 degrees|.
ShortestDeviation(a) ==
  LET devs == { Abs(a + k * 2 * PI) : k \in -3..3 }
  IN CHOOSE d \in devs : \A e \in devs : d <= e

\* The observer has the subject within viewDist and within half the field of
\* view on either side of its heading, both bounds included.
WithinSight(c, observer, subject) ==
  /\ dist2(observer.x, observer.y, subject.x, subject.y) <= c.viewDist * c.viewDist
  /\ 2 * ShortestDeviation(angleTo(observer.x, observer.y, subject.x, subject.y)
                            - observer.theta) <= c.fovDeg * 10

\* C12: visibleObservation returns an observation exactly when the subject is
\* within viewDist of the observer and within half the field of view of its
\* heading, bounds included, and null (NoObs) otherwise.
C12_SeenIffInSight ==
  last.kind \in { "observe", "tick" } =>
    \A a \in Agents :
      /\ last.obs[a].seen <=> WithinSight(cfg, last.pre.agents[a], last.pre.agents[Other(a)])
      /\ ~last.obs[a].seen => last.obs[a] = NoObs

\* C12, its case: the subject exactly at viewDist and exactly at half the
\* field of view from the heading, and observed.
C12_Reached ==
  /\ last.kind = "observe"
  /\ dist2(last.pre.agents.A.x, last.pre.agents.A.y,
           last.pre.agents.B.x, last.pre.agents.B.y) = cfg.viewDist * cfg.viewDist
  /\ 2 * ShortestDeviation(angleTo(last.pre.agents.A.x, last.pre.agents.A.y,
                                   last.pre.agents.B.x, last.pre.agents.B.y)
                            - last.pre.agents.A.theta) = cfg.fovDeg * 10
  /\ last.obs.A.seen


\* C13: a tick in which an agent does not perceive the other leaves that
\* agent's belief map and its memory of observations as they were.
C13_UnseenKeepsBelief ==
  IsTick =>
    \A a \in Agents :
      ~last.obs[a].seen =>
        /\ sim.agents[a].beliefOther = last.pre.agents[a].beliefOther
        /\ sim.agents[a].memOther = last.pre.agents[a].memOther

\* C13, its case: an agent that has observations in memory and a belief no
\* longer uniform goes through a tick without perceiving the other.
C13_Reached ==
  /\ IsTick
  /\ \E a \in Agents :
       /\ ~last.obs[a].seen
       /\ last.pre.agents[a].memOther # << >>
       /\ \E k \in DOMAIN sim.agents[a].beliefOther :
            sim.agents[a].beliefOther[k] # PScale \div 3


\* C14: with tomStrength = 0 each agent's belief map stays the uniform
\* distribution of initSim, 1/3 for each of the three resources.
C14_BeliefStaysUniform ==
  cfg.tomStrength = 0 =>
    \A a \in Agents :
      sim.agents[a].beliefOther = [ k \in ResIds |-> PScale \div 3 ]


\* C15: an agent that decides with no resource available (all are taken)
\* gets the action idle, and its goal is null after the decision.
C15_IdleWithNullGoal ==
  (IsTick /\ Available(last.pre.resources) = << >>) =>
    \A a \in Agents :
      /\ last.pick[a].act.type = "idle"
      /\ last.pick[a].me.goal = NULL


\* The untaken resource of greatest preference weight for the agent, the
\* first in list order among equals: its id, or null when all are taken.
BestUntaken(ag, resources) ==
  LET open == { i \in 1..Len(resources) : resources[i].takenBy = NULL }
      w(i) == ag.preferences[resources[i].typeId]
  IN IF open = {} THEN NULL
     ELSE resources[CHOOSE i \in open :
                      \A j \in open : w(j) < w(i) \/ (w(j) = w(i) /\ i <= j)].id

\* The resources as the pickup of A in the last tick left them.
AfterTakeOfA ==
  IF last.took.A = 0 THEN last.pre.resources
  ELSE [ last.pre.resources EXCEPT ![last.took.A].takenBy = "A" ]

\* An agent but for what the eyes and the glance after a pickup write.
SansEyes(ag) ==
  [ ag EXCEPT !.blinkT = 0, !.nextBlinkAt = 0, !.saccadeT = 0, !.nextSaccadeAt = 0,
              !.gazeOtherT = 0 ]

\* C16: attemptTake, run for an agent whose goal is an untaken resource
\* within takeRadius, leaves the resource taken by the agent, its type
\* appended once to carried, bluffTicks = 0, bluffTarget = null and as goal
\* the best untaken resource (null if none); run in any other case it
\* changes nothing of the agent or the resources.
C16_AttemptTake ==
  IsTick =>
    \A a \in Agents :
      LET before == last.mov[a]
          after == sim.agents[a]
          resIn == IF a = "A" THEN last.pre.resources ELSE AfterTakeOfA
          resOut == IF a = "A" THEN AfterTakeOfA ELSE sim.resources
          i == InReach(cfg, before, resIn)
      IN /\ last.took[a] = i
         /\ i # 0 =>
              /\ resOut = [ resIn EXCEPT ![i].takenBy = a ]
              /\ after.carried = Append(before.carried, resIn[i].typeId)
              /\ after.bluffTicks = 0 /\ after.bluffTarget = NULL
              /\ after.goal = BestUntaken(before, resOut)
         /\ i = 0 =>
              /\ resOut = resIn
              /\ SansEyes(after) = SansEyes(before)

\* C16, its case: in one tick an agent took its goal and got another goal,
\* and the other agent, with an untaken goal out of reach, took nothing.
C16_Reached ==
  /\ IsTick
  /\ \E a \in Agents :
       /\ last.took[a] # 0
       /\ sim.agents[a].goal # NULL
       /\ last.took[Other(a)] = 0
       /\ GoalUntaken(last.mov[Other(a)], last.pre.resources)
       /\ last.mov[Other(a)].goal # NULL


\* The decision of agent a in the last tick went through the normal branch
\* of pickAction: no bluff in progress, a resource available, no bluff begun.
NormalBranch(a) ==
  /\ IsTick
  /\ ~Bluffing(last.bel[a])
  /\ Available(last.pre.resources) # << >>
  /\ ~last.pick[a].act.bluff

\* The utility agent a gave, in its last decision, to the resource at
\* position i of the list.
UtilityAt(a, i) == Utility(cfg, last.bel[a], last.other[a], last.pre.resources[i])

\* C17: in the normal branch of pickAction the target is an available
\* resource no available resource has a greater utility than, none before
\* it in the list has an equal one, and it becomes the agent's goal.
C17_ArgMaxUtility ==
  \A a \in Agents :
    NormalBranch(a) =>
      LET t == resourceById(last.pre.resources, last.pick[a].act.targetId)
      IN /\ last.pick[a].act.type = "move_to"
         /\ t # 0
         /\ last.pre.resources[t].takenBy = NULL
         /\ \A j \in 1..Len(last.pre.resources) :
              last.pre.resources[j].takenBy = NULL =>
                /\ UtilityAt(a, j) <= UtilityAt(a, t)
                /\ j < t => UtilityAt(a, j) < UtilityAt(a, t)
         /\ last.pick[a].me.goal = last.pre.resources[t].id

\* C17, its case: two available resources had the same utility, the
\* greatest, in an agent's decision, and the agent chose the first of them.
C17_Reached ==
  \E a \in Agents :
    /\ NormalBranch(a)
    /\ \E i, j \in 1..Len(last.pre.resources) :
         /\ i < j
         /\ last.pre.resources[i].takenBy = NULL /\ last.pre.resources[j].takenBy = NULL
         /\ UtilityAt(a, i) = UtilityAt(a, j)
         /\ \A k \in 1..Len(last.pre.resources) :
              last.pre.resources[k].takenBy = NULL => UtilityAt(a, k) <= UtilityAt(a, i)
         /\ last.pick[a].act.targetId = last.pre.resources[i].id

\* The decision of agent a in the last tick consulted mostLikelyBelief: no
\* bluff in progress and a resource available.
ConsultsBelief(a) ==
  /\ IsTick
  /\ ~Bluffing(last.bel[a])
  /\ Available(last.pre.resources) # << >>

\* C18: the most-likely belief a decision uses, for the bluff trigger and
\* for the cooperation bonus, is never the id of a taken resource.
C18_LikelyBeliefUntaken ==
  \A a \in Agents :
    ConsultsBelief(a) =>
      LET rid == mostLikelyBelief(last.bel[a]).rid
      IN \/ rid = NULL
         \/ /\ resourceById(last.pre.resources, rid) # 0
            /\ last.pre.resources[resourceById(last.pre.resources, rid)].takenBy = NULL

\* The most recent step was a reset.
IsReset == last.kind = "reset"

\* The generator a simulation built from the seed holds: Mulberry32 seeded
\* with the seed, advanced by the six draws of spawnResources and the four
\* of the agents' timers.
FreshRng(seed) == [ a |-> RngSkip(RngSeed(seed), 10), n |-> 10 ]

\* C19: a reset from any reachable state yields exactly the initial state
\* for the given seed (0 for an input that is not a number): clocks and
\* counters at zero, no effects, every resource untaken, carried lists and
\* memories empty, no bluff in progress, both belief maps uniform, each goal
\* the agent's highest-preference resource, a fresh generator; and the
\* simulation is the one construction gives for the configuration, whatever
\* the simulation replaced was.
C19_ResetIsInitial ==
  IsReset =>
    /\ sim = initSim(cfg)
    /\ sim.t = 0 /\ sim.tick = 0 /\ sim.pauseT = 0
    /\ sim.effects = << >>
    /\ Len(sim.resources) = 3
    /\ \A i \in 1..Len(sim.resources) : sim.resources[i].takenBy = NULL
    /\ \A a \in Agents :
         /\ sim.agents[a].carried = << >>
         /\ sim.agents[a].memOther = << >>
         /\ ~Bluffing(sim.agents[a])
         /\ sim.agents[a].bluffTarget = NULL
         /\ DOMAIN sim.agents[a].beliefOther = { sim.resources[i].id : i \in 1..3 }
         /\ \A k \in DOMAIN sim.agents[a].beliefOther :
              sim.agents[a].beliefOther[k] = PScale \div 3
         /\ sim.agents[a].goal = BestUntaken(sim.agents[a], sim.resources)
    /\ sim.rng = FreshRng(cfg.seed)
    /\ steps = 0

\* C19, its case: the reset replaced a simulation that had ticked, with a
\* resource taken, an effect in flight and a memory of the other agent.
C19_Reached ==
  /\ IsReset
  /\ last.replaced.ticked /\ last.replaced.taken
  /\ last.replaced.effects /\ last.replaced.memory

\* C19, its case again: the reset replaced a simulation with a bluff in
\* progress.
C19_BluffReached == IsReset /\ last.replaced.bluff

\* The most recent frame was abandoned on a failure of its tick.
IsFailed == last.kind = "failed"

\* C20: after a failure part-way through a tick the simulation is the one
\* from before the failing tick, the error is reported, and later ticks
\* still run (the next animation frame stays requested).
C20_FailureKeepsState ==
  IsFailed =>
    /\ sim = last.pre
    /\ err # NULL
    /\ raf

\* C21: between resets t and tick never decrease: a sub-step that is
\* neither paused nor stopped adds 1 to tick and dtEff to t, every other
\* sub-step leaves both as they were (last.pre is the simulation the most
\* recent sub-step began with).
C21_ClockAdvances ==
  /\ last.kind = "tick" =>
       /\ sim.tick = last.pre.tick + 1
       /\ sim.t = last.pre.t + dtEffOf(cfg)
  /\ last.kind \in { "paused", "stopped" } =>
       /\ sim.tick = last.pre.tick
       /\ sim.t = last.pre.t
  /\ last.kind # "reset" => sim.tick >= 0 /\ sim.t = sim.tick * dtEffOf(cfg)

\* C21, its case: a tick that follows ticks and paused sub-steps.
C21_Reached ==
  /\ IsTick
  /\ last.pre.tick > 0
  /\ steps > sim.tick
  /\ sim.tick = last.pre.tick + 1

\* The most recent step set a parameter.
IsParam == last.kind = "param"

NumbersClamped ==
  (IsParam /\ last.v.num) =>
    /\ last.a <= cfg[last.key] /\ cfg[last.key] <= last.b
    /\ last.v.v < last.a => cfg[last.key] = last.a
    /\ last.v.v > last.b => cfg[last.key] = last.b
    /\ (last.a <= last.v.v /\ last.v.v <= last.b) => cfg[last.key] = last.v.v

\* The type of the first resource agent a carries, NULL while it carries none.
FirstCarried(a) ==
  IF sim.agents[a].carried = << >> THEN NULL ELSE sim.agents[a].carried[1]

\* C23: with seed 1337, no observation noise and no bluffs, the first
\* resource A picks up is seme_blu and the first B picks up is seme_ambra,
\* and after the MaxFirst sub-steps explored both carry one.
C23_FirstPickups ==
  /\ FirstCarried("A") \in { NULL, "seme_blu" }
  /\ FirstCarried("B") \in { NULL, "seme_ambra" }
  /\ steps >= MaxFirst => FirstCarried("A") = "seme_blu" /\ FirstCarried("B") = "seme_ambra"

\* C23, its case: both agents carry their first resource.
C23_Reached ==
  /\ cfg.seed = 1337 /\ cfg.noisePos = 0 /\ cfg.noiseAng = 0 /\ cfg.bluffChance = 0
  /\ cfg.simRate = DEFAULTS.simRate
  /\ sim.agents.A.carried # << >>
  /\ sim.agents.B.carried # << >>

\* Resource i of the list could serve agent me as a decoy: it is untaken and
\* not the agent's goal.
IsDecoy(me, resources, i) ==
  resources[i].takenBy = NULL /\ resources[i].id # me.goal

\* C24: a bluff starts only in a decision of an agent that is not bluffing,
\* whose most likely belief is its own goal with probability above 0.58,
\* whose draw from the generator is below bluffChance (never, then, with
\* bluffChance = 0), and with a resource other than its goal available; the
\* decoy is then an available resource other than the goal, none such being
\* nearer to the agent.
C24_BluffStart ==
  IsTick =>
    \A a \in Agents :
      last.pick[a].act.bluff =>
        LET me == last.bel[a]
            t == resourceById(last.pre.resources, last.pick[a].act.targetId)
        IN /\ ConflictLikely(me)
           /\ cfg.bluffChance > 0
           /\ Rnd(last.rngIn[a]) * 100 < cfg.bluffChance * W16
           /\ t # 0
           /\ IsDecoy(me, last.pre.resources, t)
           /\ \A j \in 1..Len(last.pre.resources) :
                IsDecoy(me, last.pre.resources, j) =>
                  dist2(me.x, me.y, last.pre.resources[t].x, last.pre.resources[t].y)
                    <= dist2(me.x, me.y, last.pre.resources[j].x, last.pre.resources[j].y)
           /\ last.pick[a].me.bluffTarget = last.pre.resources[t].id
           /\ last.pick[a].me.goal = me.goal

\* C24, its case: a bluff started with two resources to choose the decoy
\* from, at different distances from the agent.
C24_Reached ==
  /\ IsTick
  /\ \E a \in Agents :
       /\ last.pick[a].act.bluff
       /\ \E i, j \in 1..Len(last.pre.resources) :
            /\ IsDecoy(last.bel[a], last.pre.resources, i)
            /\ IsDecoy(last.bel[a], last.pre.resources, j)
            /\ dist2(last.bel[a].x, last.bel[a].y, last.pre.resources[i].x, last.pre.resources[i].y)
                 < dist2(last.bel[a].x, last.bel[a].y, last.pre.resources[j].x, last.pre.resources[j].y)

\* A decision with the most likely belief on the agent's own goal above
\* the threshold, and bluffChance = 0.
ConflictWithoutBluff ==
  IsTick /\ cfg.bluffChance = 0 /\ \E a \in Agents : ConflictLikely(last.bel[a])

\* The number of the two observations of the last step that perceived
\* their subject.
Perceived == (IF last.obs.A.seen THEN 1 ELSE 0) + (IF last.obs.B.seen THEN 1 ELSE 0)

\* C25: visibleObservation changes nothing but the generator, which it
\* advances by three draws when the subject is perceived and by none when
\* it is not: after the two observations of a tick the generator is three
\* draws further for each subject perceived, and the agents, the resources
\* and the rest of the simulation are as before.
C25_ObservationDraws ==
  last.kind = "observe" =>
    /\ sim.rng.n = last.pre.rng.n + 3 * Perceived
    /\ sim.rng.a = RngSkip(last.pre.rng.a, 3 * Perceived)
    /\ sim.agents = last.pre.agents
    /\ sim.resources = last.pre.resources
    /\ [ sim EXCEPT !.rng = last.pre.rng ] = last.pre

\* C25, its case: of the two observations one perceived its subject and
\* the other did not.
C25_Reached ==
  /\ last.kind = "observe"
  /\ last.obs.A.seen /\ ~last.obs.B.seen
  /\ sim.rng.n = last.pre.rng.n + 3

\* Agent a updated its belief in the last tick: it perceived the other and
\* a resource was untaken.
BeliefUpdated(a) ==
  IsTick /\ last.obs[a].seen /\ Available(last.pre.resources) # << >>

\* C26: an agent's memory of observations holds at most 13 entries; a
\* belief update appends its observation as the last entry, keeps the
\* entries before it in their order and drops the oldest beyond 13; a tick
\* without a belief update leaves the memory as it was.
C26_RollingMemory ==
  \A a \in Agents :
    /\ Len(sim.agents[a].memOther) <= 13
    /\ IsTick =>
         LET old == last.pre.agents[a].memOther
             new == sim.agents[a].memOther
             k == Min2(13, Len(old) + 1)
         IN IF BeliefUpdated(a)
            THEN /\ Len(new) = k
                 /\ new[k] = [ x |-> last.obs[a].x, y |-> last.obs[a].y,
                               theta |-> last.obs[a].theta ]
                 /\ \A i \in 1..(k - 1) : new[i] = old[Len(old) - (k - 1) + i]
            ELSE new = old

\* C26, its case: a belief update of an agent whose memory was full, with
\* the oldest entry differing from the one after it.
C26_Reached ==
  \E a \in Agents :
    /\ BeliefUpdated(a)
    /\ Len(last.pre.agents[a].memOther) = 13
    /\ last.pre.agents[a].memOther[1] # last.pre.agents[a].memOther[2]
    /\ Len(sim.agents[a].memOther) = 13

\* C27: stepMovement with no target (the idle action) sets the agent's
\* velocity to zero and leaves its position and its heading as they were.
C27_IdleStandsStill ==
  IsTick =>
    \A a \in Agents :
      TargetOf(last.pre.resources, last.pick[a].act) = 0 =>
        /\ last.pick[a].act.type = "idle"
        /\ last.mov[a].vx = 0 /\ last.mov[a].vy = 0
        /\ last.mov[a].x = last.pick[a].me.x
        /\ last.mov[a].y = last.pick[a].me.y
        /\ last.mov[a].theta = last.pick[a].me.theta
        /\ [ last.mov[a] EXCEPT !.vx = last.pick[a].me.vx, !.vy = last.pick[a].me.vy ]
             = last.pick[a].me

\* C27, its case: an agent that was moving is handed the idle action.
C27_Reached ==
  /\ IsTick
  /\ \E a \in Agents :
       /\ last.pick[a].act.type = "idle"
       /\ (last.pick[a].me.vx # 0 \/ last.pick[a].me.vy # 0)
       /\ last.mov[a].vx = 0 /\ last.mov[a].vy = 0

\* The agent's position lies inside the arena with the margin of 16.
InArena(c, ag) ==
  /\ 16 <= ag.x /\ ag.x <= c.width - 16
  /\ 16 <= ag.y /\ ag.y <= c.height - 16

\* C28: in every reachable state both agents' positions lie inside the
\* arena with the fixed margin: 16 <= x <= width - 16, 16 <= y <= height - 16.
C28_InsideArena == \A a \in Agents : InArena(cfg, sim.agents[a])

\* C28, its case: an agent moved with a velocity that points out of the
\* arena and stands on the margin.
C28_Reached ==
  /\ IsTick
  /\ \E a \in Agents :
       /\ InArena(cfg, sim.agents[a])
       /\ \/ sim.agents[a].x = 16 /\ sim.agents[a].vx < 0
          \/ sim.agents[a].y = cfg.height - 16 /\ sim.agents[a].vy > 0

\* A resource was picked up in the last tick; a bluff started in it.
PickedUp == last.took.A # 0 \/ last.took.B # 0
BluffStarted == last.pick.A.act.bluff \/ last.pick.B.act.bluff

\* C29: with autoPause, a tick with a pickup ends with pauseT >=
\* pauseSeconds and a tick in which a bluff starts with pauseT >= 0.75
\* pauseSeconds, no tick ends with a pause shorter than the one it began
\* with, and the sub-step after a tick that left pauseT > 0 is a paused one.
C29_PauseAfterEvent ==
  /\ [](IsTick /\ cfg.autoPause =>
          /\ PickedUp => sim.pauseT >= cfg.pauseSeconds
          /\ BluffStarted => 4 * sim.pauseT >= 3 * cfg.pauseSeconds
          /\ sim.pauseT >= last.pre.pauseT)
  /\ [][ (sim.pauseT > 0 /\ steps' = steps + 1) =>
           (last'.kind = "paused" /\ sim'.tick = sim.tick) ]_vars

\* C29, its case: a tick with a pickup left the pause of a pickup.
C29_Reached ==
  /\ IsTick /\ cfg.autoPause
  /\ PickedUp
  /\ sim.pauseT = cfg.pauseSeconds

\* C29, its case again: a tick in which a bluff started, without a pickup,
\* left a pause.
C29_BluffReached ==
  /\ IsTick /\ cfg.autoPause
  /\ BluffStarted /\ ~PickedUp
  /\ sim.pauseT > 0

\* C30: every pause ends: pauseT is never negative, a paused sub-step takes
\* dtEff > 0 off a positive pauseT, stopping at 0, so that pauseT is 0
\* after finitely many sub-steps, and the running sub-step after pauseT is 0
\* is a tick.
C30_PauseEnds ==
  /\ [](sim.pauseT >= 0 /\ dtEffOf(cfg) > 0)
  /\ [](last.kind = "paused" =>
          /\ last.pre.pauseT > 0
          /\ sim.pauseT = Max2(0, last.pre.pauseT - dtEffOf(cfg))
          /\ sim.pauseT < last.pre.pauseT)
  /\ [][ (sim.pauseT = 0 /\ running /\ steps' = steps + 1) =>
           (last'.kind = "tick" /\ sim'.tick = sim.tick + 1) ]_vars

\* C30, its case: a paused sub-step brought pauseT to 0.
C30_Reached ==
  /\ last.kind = "paused"
  /\ last.pre.pauseT > 0
  /\ sim.pauseT = 0

\* The story log or the subtitle is not what the most recent sub-step found.
StoryChanged == sim.story # last.pre.story \/ sim.subtitle # last.pre.subtitle

\* C31: the story log and the subtitle change only on ticks whose counter is
\* a multiple of narrEvery, which is at least 8, never in any other
\* sub-step, and the story log never holds more than 28 lines.
C31_BeatsRateLimited ==
  /\ narrEveryOf(cfg) >= 8
  /\ Len(sim.story) <= 28
  /\ last.kind \in { "tick", "paused", "stopped" } =>
       (StoryChanged => (IsTick /\ sim.tick % narrEveryOf(cfg) = 0))

\* C31, its case: a tick on a multiple of narrEvery added lines to a story
\* log that the limit of 28 then cut.
C31_Reached ==
  /\ IsTick
  /\ sim.tick % narrEveryOf(cfg) = 0
  /\ StoryChanged
  /\ Len(last.pre.story) >= 27
  /\ Len(sim.story) = 28

\* The positions in the list of the resources agent a has taken.
TakenBy(a) == { i \in 1..Len(sim.resources) : sim.resources[i].takenBy = a }

\* Sequence p is a prefix of sequence q.
IsPrefix(p, q) == Len(p) <= Len(q) /\ \A i \in 1..Len(p) : p[i] = q[i]

\* C32: the number of taken resources is the sum of the lengths of the two
\* carried lists, each agent's carried list holds exactly the types of the
\* resources taken by it, once each, and a sub-step only ever appends to a
\* carried list.
C32_CarriedMatchesTaken ==
  /\ Cardinality({ i \in 1..Len(sim.resources) : sim.resources[i].takenBy # NULL })
       = Len(sim.agents.A.carried) + Len(sim.agents.B.carried)
  /\ \A a \in Agents :
       /\ Len(sim.agents[a].carried) = Cardinality(TakenBy(a))
       /\ { sim.agents[a].carried[i] : i \in 1..Len(sim.agents[a].carried) }
            = { sim.resources[i].typeId : i \in TakenBy(a) }
       /\ last.kind \in { "tick", "paused", "stopped" } =>
            IsPrefix(last.pre.agents[a].carried, sim.agents[a].carried)

\* C32, its case: all resources are taken, one agent carrying two of them,
\* the second just picked up.
C32_Reached ==
  /\ IsTick
  /\ \E a \in Agents :
       /\ Len(sim.agents[a].carried) = 2
       /\ Len(last.pre.agents[a].carried) = 1
       /\ Len(sim.agents[Other(a)].carried) = 1

\* C33: for each agent, bluffTicks > 0 implies that bluffTarget is set,
\* that it differs from the agent's goal, and that the agent's mood is
\* furba.
C33_BluffingState ==
  \A a \in Agents :
    sim.agents[a].bluffTicks > 0 =>
      /\ sim.agents[a].bluffTarget # NULL
      /\ sim.agents[a].bluffTarget # sim.agents[a].goal
      /\ sim.agents[a].mood = "furba"

\* C33, its case: an agent went through a tick of a committed bluff and
\* has ticks of it left.
C33_Reached ==
  /\ IsTick
  /\ \E a \in Agents :
       /\ Bluffing(last.bel[a])
       /\ sim.agents[a].bluffTicks > 0

\* C34: the target of every move_to action, the ticks of a committed bluff
\* included, is a resource that is not taken when the action is chosen.
C34_TargetUntaken ==
  IsTick =>
    \A a \in Agents :
      last.pick[a].act.type = "move_to" =>
        LET t == resourceById(last.pre.resources, last.pick[a].act.targetId)
        IN /\ t # 0
           /\ last.pre.resources[t].takenBy = NULL

\* Agent a, as it stood at the pickup resolution of the last tick with a
\* bluff in progress, was within takeRadius of the untaken resource named id.
BluffingOver(a, resIn, id) ==
  LET i == resourceById(resIn, id)
  IN /\ Bluffing(last.mov[a])
     /\ i # 0
     /\ resIn[i].takenBy = NULL
     /\ WithinTake(cfg, last.mov[a], resIn[i])

\* C35: an agent only ever takes the resource that is its goal at pickup
\* resolution; with a bluff in progress, being within takeRadius of the
\* decoy does not take the decoy, and being within takeRadius of the goal
\* (not yet taken) takes it and ends the bluff.
C35_TakesGoalOnly ==
  IsTick =>
    \A a \in Agents :
      LET before == last.mov[a]
          after == sim.agents[a]
          resIn == IF a = "A" THEN last.pre.resources ELSE AfterTakeOfA
          resOut == IF a = "A" THEN AfterTakeOfA ELSE sim.resources
          g == resourceById(resIn, before.goal)
          d == resourceById(resIn, before.bluffTarget)
      IN /\ last.took[a] # 0 => resIn[last.took[a]].id = before.goal
         /\ \A i \in 1..Len(resIn) :
              (resIn[i].id # before.goal) => resOut[i] = resIn[i]
         /\ BluffingOver(a, resIn, before.bluffTarget) =>
              /\ last.took[a] # d
              /\ resOut[d].takenBy = NULL
         /\ BluffingOver(a, resIn, before.goal) =>
              /\ last.took[a] = g
              /\ resOut[g].takenBy = a
              /\ after.bluffTicks = 0 /\ after.bluffTarget = NULL

\* C35, its case: an agent with a bluff in progress stood within takeRadius
\* of its untaken decoy at pickup resolution and the decoy stayed untaken.
C35_Reached ==
  /\ IsTick
  /\ \E a \in Agents :
       /\ BluffingOver(a, IF a = "A" THEN last.pre.resources ELSE AfterTakeOfA,
                       last.mov[a].bluffTarget)
       /\ last.took[a] = 0
       /\ Bluffing(sim.agents[a])

\* C35, its other case: an agent with a bluff in progress took its goal and
\* the bluff ended.
C35_GoalReached ==
  /\ IsTick
  /\ \E a \in Agents :
       /\ BluffingOver(a, IF a = "A" THEN last.pre.resources ELSE AfterTakeOfA,
                       last.mov[a].goal)
       /\ last.took[a] # 0
       /\ ~Bluffing(sim.agents[a])

\* Every resource of the simulation is taken and neither agent has a bluff
\* in progress.
Settled(s) ==
  /\ \A i \in 1..Len(s.resources) : s.resources[i].takenBy # NULL
  /\ \A a \in Agents : ~Bluffing(s.agents[a])

\* An agent but for its velocity and for what the eyes and glances write.
AtRest(ag) == [ SansEyes(ag) EXCEPT !.vx = 0, !.vy = 0 ]

C37_NeverPaused ==
  ~cfg.autoPause => (sim.pauseT = 0 /\ last.kind # "paused")

\* C37, its case: with autoPause disabled, a tick on which a bluff starts
\* after a resource has been picked up.
C37_Reached ==
  /\ ~cfg.autoPause
  /\ IsTick
  /\ BluffStarted
  /\ \E i \in 1..Len(sim.resources) : sim.resources[i].takenBy # NULL
  /\ sim.pauseT = 0

\* C38: while the user has stopped the simulation (running = false), a
\* sub-step changes no simulation state (t, tick, agents, beliefs,
\* resources, RNG, effects), except that a pending pause countdown pauseT
\* keeps decreasing and the subtitle timer keeps increasing.
C38_StoppedFrozen ==
  [][ (~running /\ steps' = steps + 1) =>
        /\ sim' = [ sim EXCEPT !.subtitleT = sim.subtitleT + dtEffOf(cfg),
                               !.pauseT = Max2(0, sim.pauseT - dtEffOf(cfg)) ]
        /\ sim'.subtitleT > sim.subtitleT
        /\ sim.pauseT > 0 => sim'.pauseT < sim.pauseT ]_vars

\* C38, its case: a sub-step of the stopped simulation, after a pickup, that
\* took from a pending pause.
C38_Reached ==
  /\ ~running
  /\ stopped = 1
  /\ last.kind = "paused"
  /\ last.pre.pauseT > sim.pauseT
  /\ sim.tick > 0
  /\ \E i \in 1..Len(sim.resources) : sim.resources[i].takenBy # NULL

\* C38, its other case: a sub-step of the stopped simulation with no pause
\* pending, in the middle of a run.
C38_StoppedReached ==
  /\ ~running
  /\ last.kind = "stopped"
  /\ sim.tick > 0
  /\ sim.pauseT = 0
  /\ sim.subtitleT > last.pre.subtitleT

\* C39: the simulation state after N executed sub-steps is the same however
\* the sub-steps are grouped into frames (1, 2 or 3 per frame): the same
\* draws in the same order, the same agents and resources.
C39_BatchingIndifferent ==
  (twin.on /\ twin.steps = steps) => twin.sim = sim

\* C39, its case: a run in frames of two and three sub-steps and a run in
\* frames of one have executed the same sub-steps, a pickup, the pause
\* after it and ticks that draw from the generator among them.
C39_Reached ==
  /\ twin.on
  /\ twin.steps = steps
  /\ \E i \in 1..Len(sim.resources) : sim.resources[i].takenBy # NULL
  /\ 0 < sim.tick /\ sim.tick < steps
  /\ sim.pauseT = 0
  /\ sim.rng.n > 10

=============================================================================
